---- MODULE Spec2Model ----
(***************************************************************************)
(* Model of the wepcrack key cracker: the RC4 cipher, the test sample      *)
(* buffer, the candidate key tester, the cracker engine (KeyCracker) and   *)
(* the worker / observer harness built on RecessiveMutex.                  *)
(*                                                                         *)
(* Rust arrays are modelled as functions over 0..n-1 so that indices are   *)
(* the indices of the source.                                              *)
(***************************************************************************)
EXTENDS FiniteSets, Integers, Sequences, TLC

VARIABLES
    \* ---- KeyCracker (ui/keycracker/cracker.rs) ----
    phase,            \* KeyCrackerPhase
    delay_timer,      \* readiness check counter
    num_samples,      \* KeyPredictor::num_samples
    sigma_votes,      \* KeyPredictor::sigma_votes: 13 rows of 256 vote counts
    key_byte_infos,   \* KeyPredictor::key_byte_infos(): 13 x [prediction, score_ok]
    test_sample_buf,  \* TestSampleBuffer: [samples, period_timer]
    key_tester,       \* Option<KeyTester>
    cracked_key,      \* Option<WepKey>
    panic,            \* which panic!/assert!/unwrap aborted the running thread ("none" if none)
    \* ---- sample provider ----
    provided,         \* number of samples the provider has handed out
    no_sample,        \* calls of the provider that returned "no sample" (saturating)
    \* ---- KeyTester driven on its own ----
    adv_calls,        \* number of advance_to_next_key() calls made
    adv_ret,          \* return value of the last advance_to_next_key() call
    visited,          \* the l-index vectors the tester has stood at
    hi_advanced,      \* some call has stepped the l-index of a position >= LEN_40
    \* ---- TestSampleBuffer driven on its own ----
    offered,          \* the samples passed to accept_sample so far, in order
    admitted,         \* the samples accept_sample has appended so far, in order
    \* ---- a function or a cipher driven on its own ----
    rc4,              \* an RC4Cipher
    call_in,          \* the argument of the call
    call_out,         \* what the call returned
    \* ---- KeyCrackerThread / RecessiveMutex (ui/keycracker/cracker_thread.rs, util.rs) ----
    should_exit,      \* AtomicBool shared by worker and orchestrator
    wants_access,     \* RecessiveMutex::wants_access
    mutex,            \* owner of RecessiveMutex::mutex: "free", "worker" or "observer"
    poisoned,         \* std Mutex poison flag
    worker_pc,        \* position of cracker_thread_func
    observer_pc,      \* position of the UI thread (draw / drop)
    snapshots,        \* number of completed lock_state() critical sections
    worker_locks      \* mutex acquisitions by the worker since wants_access was last set

vars == << phase, delay_timer, num_samples, sigma_votes, key_byte_infos,
           test_sample_buf, key_tester, cracked_key, panic, provided, no_sample,
           adv_calls, adv_ret, visited, hi_advanced, offered, admitted,
           rc4, call_in, call_out,
           should_exit, wants_access, mutex, poisoned, worker_pc, observer_pc,
           snapshots, worker_locks >>

engine_vars == << phase, delay_timer, num_samples, sigma_votes, key_byte_infos,
                  test_sample_buf, key_tester, cracked_key, panic, provided, no_sample >>

tester_vars == << adv_calls, adv_ret, visited, hi_advanced >>

buffer_vars == << offered, admitted >>

unit_vars == << rc4, call_in, call_out >>

\* the variables of the components driven on their own
driver_vars == << tester_vars, buffer_vars, unit_vars >>

thread_vars == << should_exit, wants_access, mutex, poisoned, worker_pc, observer_pc,
                  snapshots, worker_locks >>

\* ------------------------------------------------------------------------
\* Constants of the program
\* ------------------------------------------------------------------------
LEN_40 == 5
LEN_104 == 13
KEYSTREAM_LEN == 16
\* READY_CHECK_PERIOD of do_work, 2048 in the source, scaled down so that the
\* readiness check is reached within a few samples
READY_CHECK_PERIOD == 2
\* usize::MAX, the l-index stored at Normal positions; it is never used in
\* arithmetic, so TLC's largest integer stands for it.
USIZE_MAX == 2147483647

None == [tag |-> "None"]

Byte == 0..255

\* Rust's rem_euclid(256)
RemEuclid256(x) == x % 256

Len0(arr) == Cardinality(DOMAIN arr)

\* Body(value), with value evaluated once before Body is: the value of a
\* local variable that the code computes once and then reads several times
Bind(value, Body(_)) == CHOOSE r \in { Body(v) : v \in {value} } : TRUE

\* ------------------------------------------------------------------------
\* RC4 (rc4.rs)
\* ------------------------------------------------------------------------
RC4Default == [s |-> [k \in 0..255 |-> k], i |-> 0, j |-> 0]

\* an exchange that writes s[b] to s[a] and leaves s[b] as it was
Swap_Overwrites(s, a, b) == [s EXCEPT ![a] = s[b]]

Swap(s, a, b) == [s EXCEPT ![a] = s[b], ![b] = s[a]]

\* one iteration of the loop of do_partial_keyschedule
KeyscheduleStep(c, kb) ==
    LET j2 == (c.j + c.s[c.i] + kb) % 256
    IN [s |-> Swap(c.s, c.i, j2), i |-> c.i + 1, j |-> j2]

\* the loop of do_partial_keyschedule over key[lo..hi), split in halves so
\* that the evaluation depth stays logarithmic in the key length
RECURSIVE KeyscheduleRange(_, _, _, _)
KeyscheduleRange(c, key, lo, hi) ==
    IF hi <= lo THEN c
    ELSE IF hi = lo + 1 THEN KeyscheduleStep(c, key[lo])
    ELSE Bind(lo + ((hi - lo) \div 2), LAMBDA mid :
            Bind(KeyscheduleRange(c, key, lo, mid),
                 LAMBDA left : KeyscheduleRange(left, key, mid, hi)))

\* do_partial_keyschedule that starts over from i = 0, j = 0
do_partial_keyschedule_ResetsIJ(c, key) ==
    Bind([c EXCEPT !.i = 0, !.j = 0],
         LAMBDA cipher : KeyscheduleRange(cipher, key, 0, Len0(key)))

do_partial_keyschedule(c, key) ==
    Bind(c, LAMBDA cipher : KeyscheduleRange(cipher, key, 0, Len0(key)))

Min(a, b) == IF a < b THEN a ELSE b

\* dst[off..off+len].copy_from_slice(&src[..len])
RECURSIVE CopyRange(_, _, _, _, _)
CopyRange(dst, off, src, lo, hi) ==
    IF hi <= lo THEN dst
    ELSE IF hi = lo + 1 THEN [dst EXCEPT ![off + lo] = src[lo]]
    ELSE Bind(lo + ((hi - lo) \div 2), LAMBDA mid :
            Bind(CopyRange(dst, off, src, lo, mid),
                 LAMBDA left : CopyRange(left, off, src, mid, hi)))

CopyFromSlice(dst, off, src, len, k) == CopyRange(dst, off, src, k, len)

\* one iteration of the tiling loop of from_key, at offset off
TileStep(key, full_key, off) ==
    LET len == Min(Len0(key), 256 - off)
    IN CopyFromSlice(full_key, off, key, len, 0)

\* iterations lo..hi-1 of the tiling loop of from_key; every iteration before
\* the last copies the whole key, so iteration t starts at off = t * key.len().
\* Split in halves to keep the evaluation depth logarithmic.
RECURSIVE TileRange(_, _, _, _)
TileRange(key, full_key, lo, hi) ==
    IF hi <= lo THEN full_key
    ELSE IF hi = lo + 1 THEN TileStep(key, full_key, lo * Len0(key))
    ELSE Bind(lo + ((hi - lo) \div 2), LAMBDA mid :
            Bind(TileRange(key, full_key, lo, mid),
                 LAMBDA left : TileRange(key, left, mid, hi)))

\* a tiling that copies the key once and leaves the rest of full_key zero
TileKey_SingleCopy(key) == TileStep(key, [k \in 0..255 |-> 0], 0)

\* while off < 256 { ... }: ceil(256 / key.len()) iterations
TileKey(key) ==
    TileRange(key, [k \in 0..255 |-> 0], 0, (256 + Len0(key) - 1) \div Len0(key))

from_key(key) ==
    Bind(TileKey(key), LAMBDA full_key :
        [s |-> do_partial_keyschedule(RC4Default, full_key).s, i |-> 0, j |-> 0])

\* gen_keystream_byte that does not step i
gen_keystream_byte_KeepsI(c) ==
    LET i2 == c.i
        j2 == (c.j + c.s[i2]) % 256
        s2 == Swap(c.s, i2, j2)
    IN [cipher |-> [s |-> s2, i |-> i2, j |-> j2],
        byte |-> s2[(s2[j2] + s2[i2]) % 256]]

\* gen_keystream_byte: the cipher after the step, and the byte it returns
gen_keystream_byte(c) ==
    LET i2 == (c.i + 1) % 256
        j2 == (c.j + c.s[i2]) % 256
        s2 == Swap(c.s, i2, j2)
    IN [cipher |-> [s |-> s2, i |-> i2, j |-> j2],
        byte |-> s2[(s2[j2] + s2[i2]) % 256]]

RECURSIVE GenKeystreamFrom(_, _, _, _)
GenKeystreamFrom(c, out, n, len) ==
    IF n >= len THEN out
    ELSE Bind(gen_keystream_byte(c), LAMBDA r :
             GenKeystreamFrom(r.cipher, [out EXCEPT ![n] = r.byte], n + 1, len))

\* gen_keystream on a buffer of len bytes
gen_keystream(c, len) ==
    Bind(c, LAMBDA cipher :
        GenKeystreamFrom(cipher, [k \in 0..(len - 1) |-> 0], 0, len))

\* ------------------------------------------------------------------------
\* WEP keys (wep.rs)
\* ------------------------------------------------------------------------
Wep40Key(bytes) == [tag |-> "Wep40Key", bytes |-> bytes]
Wep104Key(bytes) == [tag |-> "Wep104Key", bytes |-> bytes]

\* create_rc4: the RC4 seed is iv || key (8 or 16 bytes)
create_rc4(key, iv) ==
    Bind(key.bytes, LAMBDA bytes :
        from_key([k \in 0..(3 + Len0(bytes) - 1) |->
                     IF k < 3 THEN iv[k] ELSE bytes[k - 3]]))

KeystreamSample(iv, keystream) == [iv |-> iv, keystream |-> keystream]

\* ------------------------------------------------------------------------
\* TestSampleBuffer (keycracker/test_sample_buf.rs)
\* ------------------------------------------------------------------------
\* test_threshold_fract is an f64; it is kept as the exact fraction num / den
TestSampleBufferNew(buffer_size, sample_period, test_threshold_fract) ==
    [samples |-> << >>,
     buffer_size |-> buffer_size,
     period_timer |-> 0,
     sample_period |-> sample_period,
     test_threshold_fract |-> test_threshold_fract]

\* is_ready (called is_full by KeyCracker::do_work)
is_full(buf) == Len(buf.samples) >= buf.buffer_size

\* while self.samples.len() >= self.buffer_size { self.samples.pop_front(); }
\* VecDeque::pop_front: an empty deque stays empty
PopFront(samples) == IF samples = << >> THEN << >> ELSE Tail(samples)

\* an accept_sample that evicts nothing
PopOldSamples_KeepAll(samples, buffer_size) == samples

RECURSIVE PopOldSamples(_, _)
PopOldSamples(samples, buffer_size) ==
    IF Len(samples) >= buffer_size
    THEN PopOldSamples(PopFront(samples), buffer_size)
    ELSE samples

\* an accept_sample that never resets its period counter
TestBufAcceptSample_NoReset(buf, sample) ==
    LET timer == buf.period_timer + 1
    IN IF timer < buf.sample_period
       THEN [buf EXCEPT !.period_timer = timer]
       ELSE [buf EXCEPT !.period_timer = timer,
                        !.samples = Append(PopOldSamples(buf.samples, buf.buffer_size),
                                           sample)]

TestBufAcceptSample(buf, sample) ==
    LET timer == buf.period_timer + 1
    IN IF timer < buf.sample_period
       THEN [buf EXCEPT !.period_timer = timer]
       ELSE [buf EXCEPT !.period_timer = 0,
                        !.samples = Append(PopOldSamples(buf.samples, buf.buffer_size),
                                           sample)]

\* (len as f64 * fract).ceil() as usize
CeilMul(len, fract) == (len * fract.num + fract.den - 1) \div fract.den

\* does the keystream derived from key under the sample's IV equal the sample's
SampleMatches(sample, key) ==
    gen_keystream(create_rc4(key, sample.iv), KEYSTREAM_LEN) = sample.keystream

\* the sample loop of test_wep_key from sample n (1-based in the deque)
RECURSIVE TestWepKeyFrom(_, _, _, _, _)
TestWepKeyFrom(samples, key, neg_threshold, neg_samples, n) ==
    IF n > Len(samples) THEN TRUE
    ELSE IF SampleMatches(samples[n], key)
         THEN TestWepKeyFrom(samples, key, neg_threshold, neg_samples, n + 1)
         ELSE IF neg_samples + 1 >= neg_threshold
              THEN FALSE
              ELSE TestWepKeyFrom(samples, key, neg_threshold, neg_samples + 1, n + 1)

test_wep_key(buf, key) ==
    LET threshold == CeilMul(Len(buf.samples), buf.test_threshold_fract)
        neg_threshold == Len(buf.samples) - threshold
    IN TestWepKeyFrom(buf.samples, key, neg_threshold, 0, 1)

\* ------------------------------------------------------------------------
\* KeyBytePrediction (keycracker/key_byte.rs)
\* ------------------------------------------------------------------------
Normal(sigma) == [tag |-> "Normal", sigma |-> sigma]
Strong == [tag |-> "Strong"]

IsStrong(pred) == pred.tag = "Strong"

\* ------------------------------------------------------------------------
\* KeyTester (keycracker/key_tester.rs)
\* ------------------------------------------------------------------------
\* the num_keys loop of KeyTester::new from index idx
RECURSIVE NumKeysFrom(_, _, _)
NumKeysFrom(key_predictions, num_keys, idx) ==
    IF idx >= LEN_104 THEN num_keys
    ELSE NumKeysFrom(key_predictions,
                     IF IsStrong(key_predictions[idx]) THEN num_keys * idx ELSE num_keys,
                     idx + 1)

NumKeysOf(key_predictions) == NumKeysFrom(key_predictions, 1, 0)

\* assert!(num_keys >= 1) in KeyTester::new fails
KeyTesterNewPanics(key_predictions) == ~(NumKeysOf(key_predictions) >= 1)

\* KeyTester::new that takes every key for a possible WEP-40 key
KeyTesterNew_Always40(key_predictions) ==
    [tag |-> "Some",
     num_keys |-> NumKeysOf(key_predictions),
     cur_key_idx |-> 0,
     cur_l_idxs |-> [i \in 0..(LEN_104 - 1) |->
                        IF IsStrong(key_predictions[i]) THEN 1 ELSE USIZE_MAX],
     key_predictions |-> key_predictions,
     maybe_wep40 |-> TRUE]

KeyTesterNew(key_predictions) ==
    [tag |-> "Some",
     num_keys |-> NumKeysOf(key_predictions),
     cur_key_idx |-> 0,
     cur_l_idxs |-> [i \in 0..(LEN_104 - 1) |->
                        IF IsStrong(key_predictions[i]) THEN 1 ELSE USIZE_MAX],
     key_predictions |-> key_predictions,
     maybe_wep40 |-> \A i \in LEN_40..(LEN_104 - 1) : IsStrong(key_predictions[i])]

is_at_end(t) == t.cur_key_idx >= t.num_keys

\* the sum over the reversed range (i..cur_l_idxs[i]), which is empty
InvRkSum_ReversedRange(key, k, i) == 0

\* (cur_l_idxs[i]..i).map(|k| key[k] + 3 + k).sum(), from k
RECURSIVE InvRkSum(_, _, _)
InvRkSum(key, k, i) ==
    IF k >= i THEN 0 ELSE key[k] + 3 + k + InvRkSum(key, k + 1, i)

\* the loop of current_key from byte i
RECURSIVE CurrentKeyFrom(_, _, _, _)
CurrentKeyFrom(t, key, prev_sigma, i) ==
    IF i >= LEN_104 THEN key
    ELSE Bind(IF IsStrong(t.key_predictions[i])
              THEN LET inv_rk == InvRkSum(key, t.cur_l_idxs[i], i) + 3 + i
                   IN RemEuclid256(prev_sigma - inv_rk)
              ELSE t.key_predictions[i].sigma,
              LAMBDA sigma :
                 Bind([key EXCEPT ![i] = RemEuclid256(sigma - prev_sigma)],
                      LAMBDA key2 : CurrentKeyFrom(t, key2, sigma, i + 1)))

\* current_key panics on an end-state tester
CurrentKeyPanics(t) == is_at_end(t)

\* current_key whose prev_sigma starts at 1
current_key_PrevSigmaOne(t) == CurrentKeyFrom(t, [i \in 0..(LEN_104 - 1) |-> 0], 1, 0)

current_key(t) == CurrentKeyFrom(t, [i \in 0..(LEN_104 - 1) |-> 0], 0, 0)

\* the loop of advance_to_next_key from position i; falling out of the loop
\* is the panic!("unable to advance to next key")
RECURSIVE AdvanceFrom(_, _)
AdvanceFrom(t, i) ==
    IF i >= LEN_104 THEN [tester |-> t, ret |-> FALSE, panic |-> TRUE]
    ELSE IF ~IsStrong(t.key_predictions[i]) THEN AdvanceFrom(t, i + 1)
    ELSE LET t1 == IF i >= LEN_40 THEN [t EXCEPT !.maybe_wep40 = FALSE] ELSE t
             l == t1.cur_l_idxs[i] + 1
         IN IF l > i
            THEN AdvanceFrom([t1 EXCEPT !.cur_l_idxs[i] = 1], i + 1)
            ELSE [tester |-> [t1 EXCEPT !.cur_l_idxs[i] = l,
                                        !.cur_key_idx = t1.cur_key_idx + 1],
                  ret |-> TRUE, panic |-> FALSE]

\* advance_to_next_key that clears maybe_wep40 whatever position it steps
advance_to_next_key_Clears40(t) ==
    IF is_at_end(t) THEN [tester |-> t, ret |-> FALSE, panic |-> FALSE]
    ELSE Bind(AdvanceFrom(t, 0), LAMBDA r :
            [r EXCEPT !.tester = [r.tester EXCEPT !.maybe_wep40 = FALSE]])

\* advance_to_next_key that leaves the Strong positions below 3 alone
advance_to_next_key_SkipsLow(t) ==
    IF is_at_end(t) THEN [tester |-> t, ret |-> FALSE, panic |-> FALSE]
    ELSE AdvanceFrom(t, 3)

advance_to_next_key(t) ==
    IF is_at_end(t) THEN [tester |-> t, ret |-> FALSE, panic |-> FALSE]
    ELSE AdvanceFrom(t, 0)

\* test_current_key that returns the WEP-40 key without testing it
test_current_key_Untested40(t, buf) ==
    Bind(current_key(t), LAMBDA key :
        LET key104 == Wep104Key(key)
            key40 == Wep40Key([k \in 0..(LEN_40 - 1) |-> key[k]])
        IN IF test_wep_key(buf, key104) THEN [tag |-> "Some", key |-> key104]
           ELSE IF t.maybe_wep40
                THEN [tag |-> "Some", key |-> key40]
                ELSE None)

\* test_current_key that tests the WEP-40 key whatever maybe_wep40 is
test_current_key_Always40(t, buf) ==
    Bind(current_key(t), LAMBDA key :
        LET key104 == Wep104Key(key)
            key40 == Wep40Key([k \in 0..(LEN_40 - 1) |-> key[k]])
        IN IF test_wep_key(buf, key104) THEN [tag |-> "Some", key |-> key104]
           ELSE IF test_wep_key(buf, key40)
                THEN [tag |-> "Some", key |-> key40]
                ELSE None)

\* test_current_key: Some(key) or None (the caller checks CurrentKeyPanics)
test_current_key(t, buf) ==
    Bind(current_key(t), LAMBDA key :
        LET key104 == Wep104Key(key)
            key40 == Wep40Key([k \in 0..(LEN_40 - 1) |-> key[k]])
        IN IF test_wep_key(buf, key104) THEN [tag |-> "Some", key |-> key104]
           ELSE IF t.maybe_wep40 /\ test_wep_key(buf, key40)
                THEN [tag |-> "Some", key |-> key40]
                ELSE None)

\* ------------------------------------------------------------------------
\* KeyCracker (ui/keycracker/cracker.rs)
\* ------------------------------------------------------------------------
\* The engine is handled as a record of its fields:
\*   phase, delay_timer, num_samples, key_byte_infos, test_sample_buf,
\*   key_tester, cracked_key, and panic (the abort a step ran into).
\* KeyPredictor is carried as num_samples and the per-byte infos its
\* key_byte_infos() returns: for each byte the prediction() and whether
\* prediction_score() reaches the threshold of its class (score_ok).  The
\* infos are a function of all samples seen; the model takes the infos
\* after each accepted sample as an input of the step.

\* ---- KeyPredictor (keycracker/predictor.rs): num_samples and sigma_votes ----
SigmaVotesNew == [i \in 0..(LEN_104 - 1) |-> [sigma \in Byte |-> 0]]

KeyPredictorNew == [num_samples |-> 0, sigma_votes |-> SigmaVotesNew]

\* let mut sinv_3 = [0u8; 256]; for i in 0..256 { sinv_3[s_3[i]] = i }:
\* the last i with s_3[i] = v, and 0 where there is none
InversePermutation(s_3) ==
    [v \in Byte |->
        LET written == { i \in Byte : s_3[i] = v }
        IN IF written = {} THEN 0
           ELSE CHOOSE i \in written : \A k \in written : k <= i]

\* s3_sum after iteration i of the loop: s_3[3] + ... + s_3[3 + i]
RECURSIVE S3Sum(_, _)
S3Sum(s_3, i) == IF i < 0 THEN 0 ELSE S3Sum(s_3, i - 1) + s_3[3 + i]

\* a sigma that leaves j_3 out of the subtracted sum
VotedSigma_DropsJ3(c3, sample, i) ==
    LET sinv_3 == InversePermutation(c3.s)
    IN RemEuclid256(sinv_3[RemEuclid256(3 + i - sample.keystream[2 + i])]
                    - S3Sum(c3.s, i))

\* the cell of row i that accept_sample votes for; c3 is the cipher after
\* the partial key schedule over the IV
VotedSigma(c3, sample, i) ==
    LET sinv_3 == InversePermutation(c3.s)
        sigma == sinv_3[RemEuclid256(3 + i - sample.keystream[2 + i])]
                 - (c3.j + S3Sum(c3.s, i))
    IN RemEuclid256(sigma)

PredictorAcceptSample_SkipLastRow(p, sample) ==
    Bind(do_partial_keyschedule(RC4Default, sample.iv), LAMBDA c3 :
        [num_samples |-> p.num_samples + 1,
         sigma_votes |-> [i \in 0..(LEN_104 - 1) |->
             IF i = LEN_104 - 1 THEN p.sigma_votes[i]
             ELSE [p.sigma_votes[i] EXCEPT ![VotedSigma(c3, sample, i)] = @ + 1]]])

PredictorAcceptSample(p, sample) ==
    Bind(do_partial_keyschedule(RC4Default, sample.iv), LAMBDA c3 :
        [num_samples |-> p.num_samples + 1,
         sigma_votes |->
            [i \in 0..(LEN_104 - 1) |->
                [p.sigma_votes[i] EXCEPT ![VotedSigma(c3, sample, i)] = @ + 1]]])

\* from_sigma_votes with total_votes = 0: every fraction is 0/0 = NaN, so
\* err_normal < err_strong is false (Strong) and the score is NaN (no
\* `>=` comparison with it holds)
InfosNoSamples ==
    [i \in 0..(LEN_104 - 1) |-> [prediction |-> Strong, score_ok |-> FALSE]]

KeyCrackerNew(settings) ==
    [phase |-> "SampleCollection",
     delay_timer |-> 0,
     num_samples |-> KeyPredictorNew.num_samples,
     sigma_votes |-> KeyPredictorNew.sigma_votes,
     key_byte_infos |-> InfosNoSamples,
     test_sample_buf |-> TestSampleBufferNew(settings.num_test_samples,
                                             settings.test_sample_period,
                                             settings.test_sample_threshold),
     key_tester |-> None,
     cracked_key |-> None,
     panic |-> "none"]

is_running(e) == e.phase \notin {"FinishedSuccess", "FinishedFailure"}

\* the readiness predicate of do_work
ReadyForTesting(e) ==
    /\ is_full(e.test_sample_buf)
    /\ \A i \in 0..(LEN_104 - 1) : e.key_byte_infos[i].score_ok

\* "Move onto testing candidate keys": the phase is assigned first, then
\* KeyTester::new runs (and may fail its assertion)
MoveOntoTesting(e) ==
    LET key_predictions == [i \in 0..(LEN_104 - 1) |-> e.key_byte_infos[i].prediction]
        e1 == [e EXCEPT !.phase = "CandidateKeyTesting"]
    IN IF KeyTesterNewPanics(key_predictions)
       THEN [e1 EXCEPT !.panic = "assert_num_keys"]
       ELSE [e1 EXCEPT !.key_tester = KeyTesterNew(key_predictions)]

\* a collection arm that counts the call on the readiness-check counter
\* before it looks at what the provider returned
DoWorkSampleCollection_TicksOnNone(e, sample, infos) ==
    [e EXCEPT !.delay_timer = IF sample.tag = "None"
                              THEN (@ + 1) % READY_CHECK_PERIOD ELSE @]

\* do_work in SampleCollection; sample is the provider's Option<KeystreamSample>
\* and infos the predictor's infos once it has accepted the sample
DoWorkSampleCollection(e, sample, infos) ==
    IF sample.tag = "None" THEN e
    ELSE Bind(PredictorAcceptSample([num_samples |-> e.num_samples,
                                     sigma_votes |-> e.sigma_votes], sample.sample),
              LAMBDA p :
         LET e1 == [e EXCEPT !.num_samples = p.num_samples,
                             !.sigma_votes = p.sigma_votes,
                             !.key_byte_infos = infos,
                             !.test_sample_buf =
                                 TestBufAcceptSample(e.test_sample_buf, sample.sample)]
             timer == e.delay_timer + 1
         IN IF timer >= READY_CHECK_PERIOD
            THEN LET e2 == [e1 EXCEPT !.delay_timer = 0]
                 IN IF ReadyForTesting(e2) THEN MoveOntoTesting(e2) ELSE e2
            ELSE [e1 EXCEPT !.delay_timer = timer])

\* do_work in CandidateKeyTesting
DoWorkCandidateKeyTesting(e) ==
    IF e.key_tester.tag = "None" THEN [e EXCEPT !.panic = "no_key_tester"]
    ELSE IF CurrentKeyPanics(e.key_tester)
         THEN [e EXCEPT !.panic = "end_state_current_key"]
    ELSE Bind(test_current_key(e.key_tester, e.test_sample_buf), LAMBDA found :
            IF found.tag = "Some"
            THEN [e EXCEPT !.phase = "FinishedSuccess", !.cracked_key = found]
            ELSE Bind(advance_to_next_key(e.key_tester), LAMBDA r :
                    IF r.panic
                    THEN [e EXCEPT !.key_tester = r.tester, !.panic = "unable_to_advance"]
                    ELSE IF ~r.ret
                         THEN [e EXCEPT !.key_tester = r.tester,
                                        !.phase = "FinishedFailure"]
                         ELSE [e EXCEPT !.key_tester = r.tester]))

\* a terminal arm that still counts a sample into the predictor
DoWorkFinished_CountsSample(e) == [e EXCEPT !.num_samples = @ + 1]

\* a terminal arm that goes on testing candidates
DoWorkFinished_KeepTesting(e) == [e EXCEPT !.phase = "CandidateKeyTesting"]

\* a terminal arm that gives up the key it found
DoWorkFinished_ClearsKey(e) == [e EXCEPT !.cracked_key = None]

\* do_work in FinishedSuccess / FinishedFailure
DoWorkFinished(e) == e

do_work(e, sample, infos) ==
    CASE e.phase = "SampleCollection" ->
            DoWorkSampleCollection(e, sample, infos)
      [] e.phase = "CandidateKeyTesting" -> DoWorkCandidateKeyTesting(e)
      [] OTHER -> DoWorkFinished(e)

\* ------------------------------------------------------------------------
\* Inputs of the model
\* ------------------------------------------------------------------------
\* largest position that may be Strong in the prediction arrays a KeyTester
\* is driven with on its own
MaxStrongPos == 5

ByteArray(seq) == [k \in 0..(Len(seq) - 1) |-> seq[k + 1]]

\* the secret key of the simulated network; byte 2 has the strong-byte
\* property for l = 2: key[2] + 3 + 2 = 0 mod 256
TrueKey104 == ByteArray(<< 1, 2, 251, 4, 5, 6, 7, 8, 9, 10, 11, 12, 13 >>)
TrueKey40 == [k \in 0..(LEN_40 - 1) |-> TrueKey104[k]]

\* sigma sums of a key: sigma_i = key[0] + ... + key[i] mod 256
RECURSIVE SigmaSum(_, _)
SigmaSum(key, i) == IF i < 0 THEN 0 ELSE (key[i] + SigmaSum(key, i - 1)) % 256

TrueSigmas == [i \in 0..(LEN_104 - 1) |-> SigmaSum(TrueKey104, i)]

\* sigma sums that are wrong at byte 0
WrongSigmas == [TrueSigmas EXCEPT ![0] = (TrueSigmas[0] + 1) % 256]

\* the prediction array that is Strong on strong_set and Normal{sigmas[i]} elsewhere
PredsFor(strong_set, sigmas) ==
    [i \in 0..(LEN_104 - 1) |-> IF i \in strong_set THEN Strong ELSE Normal(sigmas[i])]

\* calls of advance_to_next_key() the tester is followed for
MaxAdvCalls == 130

\* every choice of Strong positions up to MaxStrongPos, and the shapes of a
\* WEP-40 network (positions LEN_40.. all Strong) with every choice of
\* Strong positions below LEN_40
TesterPredictions ==
    { PredsFor(ss, TrueSigmas) : ss \in SUBSET (0..MaxStrongPos) }
    \cup { PredsFor(ss \cup (LEN_40..(LEN_104 - 1)), TrueSigmas) :
               ss \in SUBSET (1..(LEN_40 - 1)) }

\* the IV of the simulated frames
SampleIV == ByteArray(<< 3, 255, 7 >>)

KeystreamOf(key) == gen_keystream(create_rc4(key, SampleIV), KEYSTREAM_LEN)

\* a frame of the network when its key is the 104-bit key
Sample104 == KeystreamSample(SampleIV, KeystreamOf(Wep104Key(TrueKey104)))
\* a frame of the network when its key is the 40-bit key
Sample40 == KeystreamSample(SampleIV, KeystreamOf(Wep40Key(TrueKey40)))
\* a sniffed frame that is not of the assumed shape
SampleStray == KeystreamSample(SampleIV, [k \in 0..(KEYSTREAM_LEN - 1) |-> 0])

Samples == { Sample104, Sample40, SampleStray }

\* the provider hands out at most MaxSamples samples, then "no sample"
MaxSamples == 3
\* calls of the provider that returned "no sample" are counted up to MaxNoSample
MaxNoSample == 1
\* candidate keys tested before the model stops following the enumeration
MaxTestedKeys == 8

\* KeyCrackerSettings: (num_test_samples, test_sample_period) pairs small
\* enough for the buffer to fill; test_sample_threshold = 0.25 as in
\* AppState::keycrack_capture
SettingsChoices ==
    { [num_test_samples |-> 2, test_sample_period |-> 1,
       test_sample_threshold |-> [num |-> 1, den |-> 4]],
      [num_test_samples |-> 1, test_sample_period |-> 2,
       test_sample_threshold |-> [num |-> 1, den |-> 4]] }

InfosFor(key_predictions, ok_set) ==
    [i \in 0..(LEN_104 - 1) |->
        [prediction |-> key_predictions[i], score_ok |-> i \in ok_set]]

AllBytes == 0..(LEN_104 - 1)

\* prediction snapshots the engine is driven with: all Normal (right and
\* wrong sigmas), one Strong byte (2: the key is found at l = 2; 3: no l fits),
\* Strong at byte 0, and the WEP-40 shape (bytes 5..12 Strong)
EnginePredictions ==
    { PredsFor({}, TrueSigmas), PredsFor({}, WrongSigmas),
      PredsFor({2}, TrueSigmas), PredsFor({3}, TrueSigmas),
      PredsFor({0}, TrueSigmas), PredsFor(LEN_40..(LEN_104 - 1), TrueSigmas) }

\* infos the predictor may report after a sample: every snapshot with all
\* scores over the threshold, and two that are not ready
EngineInfos ==
    { InfosFor(p, AllBytes) : p \in EnginePredictions }
    \cup { InfosFor(PredsFor({}, TrueSigmas), {}),
           InfosFor(PredsFor({}, TrueSigmas), AllBytes \ {LEN_104 - 1}) }

\* ------------------------------------------------------------------------
\* A KeyTester driven on its own: new(), then advance_to_next_key() calls
\* ------------------------------------------------------------------------
CrackerIdle ==
    /\ phase = "SampleCollection"
    /\ delay_timer = 0
    /\ key_byte_infos = None
    /\ cracked_key = None
    /\ provided = 0
    /\ no_sample = 0

PredictorIdle ==
    /\ num_samples = 0
    /\ sigma_votes = None

EngineIdle ==
    /\ CrackerIdle
    /\ PredictorIdle
    /\ test_sample_buf = None

ThreadsIdle ==
    /\ should_exit = FALSE
    /\ wants_access = FALSE
    /\ mutex = "free"
    /\ poisoned = FALSE
    /\ worker_pc = "idle"
    /\ observer_pc = "idle"
    /\ snapshots = 0
    /\ worker_locks = 0

TesterIdle ==
    /\ adv_calls = 0
    /\ adv_ret = "none"
    /\ visited = {}
    /\ hi_advanced = FALSE

BufferIdle ==
    /\ offered = << >>
    /\ admitted = << >>

UnitIdle ==
    /\ rc4 = None
    /\ call_in = None
    /\ call_out = None

DriversIdle == TesterIdle /\ BufferIdle /\ UnitIdle

InitTester ==
    /\ EngineIdle
    /\ ThreadsIdle
    /\ BufferIdle
    /\ UnitIdle
    /\ adv_calls = 0
    /\ adv_ret = "none"
    /\ hi_advanced = FALSE
    /\ \E key_predictions \in TesterPredictions :
          IF KeyTesterNewPanics(key_predictions)
          THEN key_tester = None /\ panic = "assert_num_keys" /\ visited = {}
          ELSE /\ key_tester = KeyTesterNew(key_predictions)
               /\ panic = "none"
               /\ visited = { KeyTesterNew(key_predictions).cur_l_idxs }

\* has the call that took the tester from t to t2 stepped the l-index of a
\* Strong position >= LEN_40
StepsHighPosition(t, t2) ==
    \E i \in LEN_40..(LEN_104 - 1) :
        IsStrong(t.key_predictions[i]) /\ t2.cur_l_idxs[i] # t.cur_l_idxs[i]

\* one call of advance_to_next_key(); calls stop after the first one that
\* returns false and after MaxAdvCalls calls, and a panic ends the run
TesterAdvance ==
    /\ panic = "none"
    /\ key_tester.tag = "Some"
    /\ adv_ret # "false"
    /\ adv_calls < MaxAdvCalls
    /\ LET r == advance_to_next_key(key_tester)
       IN /\ key_tester' = r.tester
          /\ adv_ret' = IF r.panic THEN "none" ELSE IF r.ret THEN "true" ELSE "false"
          /\ panic' = IF r.panic THEN "unable_to_advance" ELSE "none"
          /\ adv_calls' = adv_calls + 1
          /\ visited' = IF r.panic \/ ~r.ret THEN visited
                         ELSE visited \cup { r.tester.cur_l_idxs }
          /\ hi_advanced' = (hi_advanced \/ StepsHighPosition(key_tester, r.tester))
    /\ UNCHANGED << phase, delay_timer, num_samples, sigma_votes, key_byte_infos,
                    test_sample_buf, cracked_key, provided, no_sample >>
    /\ UNCHANGED << buffer_vars, unit_vars >>
    /\ UNCHANGED thread_vars

NextTester == TesterAdvance

SpecTester == InitTester /\ [][NextTester]_vars

\* ------------------------------------------------------------------------
\* The engine as state: the variables hold the fields of the KeyCracker
\* ------------------------------------------------------------------------
Engine ==
    [phase |-> phase, delay_timer |-> delay_timer, num_samples |-> num_samples,
     sigma_votes |-> sigma_votes, key_byte_infos |-> key_byte_infos, test_sample_buf |-> test_sample_buf,
     key_tester |-> key_tester, cracked_key |-> cracked_key, panic |-> panic]

SetEngine(e) ==
    \E after \in {e} :
        /\ phase' = after.phase
        /\ delay_timer' = after.delay_timer
        /\ num_samples' = after.num_samples
        /\ sigma_votes' = after.sigma_votes
        /\ key_byte_infos' = after.key_byte_infos
        /\ test_sample_buf' = after.test_sample_buf
        /\ key_tester' = after.key_tester
        /\ cracked_key' = after.cracked_key
        /\ panic' = after.panic

InitEngineWith(settings_choices) ==
    /\ \E settings \in settings_choices :
          LET e == KeyCrackerNew(settings)
          IN /\ phase = e.phase
             /\ delay_timer = e.delay_timer
             /\ num_samples = e.num_samples
             /\ sigma_votes = e.sigma_votes
             /\ key_byte_infos = e.key_byte_infos
             /\ test_sample_buf = e.test_sample_buf
             /\ key_tester = e.key_tester
             /\ cracked_key = e.cracked_key
             /\ panic = e.panic
    /\ provided = 0
    /\ no_sample = 0

\* the model stops following the candidate enumeration after MaxTestedKeys keys
WithinTestedKeys ==
    key_tester.tag = "Some" => key_tester.cur_key_idx < MaxTestedKeys

\* one call of do_work(): in SampleCollection the provider is called once and
\* returns a sample (while it has any) or "no sample"; a provider with
\* may_skip = FALSE returns "no sample" only once its samples are used up
StepDoWork(samples, infos_choices, may_skip) ==
    /\ panic = "none"
    /\ IF phase = "SampleCollection"
       THEN \/ /\ provided < MaxSamples
               /\ \E sample \in samples, infos \in infos_choices :
                     SetEngine(do_work(Engine, [tag |-> "Some", sample |-> sample], infos))
               /\ provided' = provided + 1
               /\ no_sample' = no_sample
            \/ /\ may_skip \/ provided >= MaxSamples
               /\ SetEngine(do_work(Engine, None, key_byte_infos))
               /\ provided' = provided
               /\ no_sample' = Min(no_sample + 1, MaxNoSample)
       ELSE /\ SetEngine(do_work(Engine, None, key_byte_infos))
            /\ UNCHANGED << provided, no_sample >>

\* ------------------------------------------------------------------------
\* The engine driven on its own: do_work() called again and again
\* ------------------------------------------------------------------------
InitEngine ==
    /\ InitEngineWith(SettingsChoices)
    /\ ThreadsIdle
    /\ DriversIdle

EngineDoWork ==
    /\ WithinTestedKeys
    /\ StepDoWork(Samples, EngineInfos, TRUE)
    /\ UNCHANGED driver_vars
    /\ UNCHANGED thread_vars

NextEngine == EngineDoWork

SpecEngine == InitEngine /\ [][NextEngine]_vars

\* ------------------------------------------------------------------------
\* KeyCrackerThread: the worker (cracker_thread_func) and the UI thread
\* (draw() calls lock_state(); drop sets should_exit and joins) on the
\* RecessiveMutex that holds the KeyCracker
\* ------------------------------------------------------------------------
\* draw() calls the UI thread makes before it stays idle or drops the thread
MaxSnapshots == 2

\* the engine inputs of the concurrent runs: short enumerations only
ThreadSamples == { Sample104 }

ThreadSettings ==
    { [num_test_samples |-> 1, test_sample_period |-> 2,
       test_sample_threshold |-> [num |-> 1, den |-> 4]] }

ThreadInfos ==
    { InfosFor(PredsFor({}, TrueSigmas), AllBytes),
      InfosFor(PredsFor({2}, WrongSigmas), AllBytes),
      InfosFor(PredsFor({}, TrueSigmas), {}) }

\* infos of a predictor whose scores stay under the thresholds
NotReadyInfos == { InfosFor(PredsFor({}, TrueSigmas), {}) }

InitThreadWith(settings_choices) ==
    /\ InitEngineWith(settings_choices)
    /\ DriversIdle
    /\ should_exit = FALSE
    /\ wants_access = FALSE
    /\ mutex = "free"
    /\ poisoned = FALSE
    /\ worker_pc = "loop"
    /\ observer_pc = "idle"
    /\ snapshots = 0
    /\ worker_locks = 0

\* ---- worker: cracker_thread_func ----
\* a loop that never looks at should_exit
WorkerLoop_IgnoreExit ==
    /\ worker_pc = "loop"
    /\ worker_pc' = "spin"
    /\ UNCHANGED << should_exit, wants_access, mutex, poisoned, observer_pc,
                    snapshots, worker_locks >>
    /\ UNCHANGED engine_vars
    /\ UNCHANGED driver_vars

\* while !should_exit.load(..)
WorkerLoop ==
    /\ worker_pc = "loop"
    /\ worker_pc' = IF should_exit THEN "done" ELSE "spin"
    /\ UNCHANGED << should_exit, wants_access, mutex, poisoned, observer_pc,
                    snapshots, worker_locks >>
    /\ UNCHANGED engine_vars
    /\ UNCHANGED driver_vars

\* lock_recessive without the yield loop
WorkerSpin_NoYield ==
    /\ worker_pc = "spin"
    /\ worker_pc' = "lock"
    /\ UNCHANGED << should_exit, wants_access, mutex, poisoned, observer_pc,
                    snapshots, worker_locks >>
    /\ UNCHANGED engine_vars
    /\ UNCHANGED driver_vars

\* lock_recessive: while wants_access.load(..) { yield_now() }
WorkerSpin ==
    /\ worker_pc = "spin"
    /\ ~wants_access
    /\ worker_pc' = "lock"
    /\ UNCHANGED << should_exit, wants_access, mutex, poisoned, observer_pc,
                    snapshots, worker_locks >>
    /\ UNCHANGED engine_vars
    /\ UNCHANGED driver_vars

\* a worker that goes on without waiting for the mutex
WorkerLock_NoMutex ==
    /\ worker_pc = "lock"
    /\ mutex' = "worker"
    /\ worker_pc' = IF poisoned THEN "exiting" ELSE "locked"
    /\ worker_locks' = Min(worker_locks + 1, 2)
    /\ UNCHANGED << should_exit, wants_access, poisoned, observer_pc, snapshots >>
    /\ UNCHANGED engine_vars
    /\ UNCHANGED driver_vars

\* lock_recessive: self.mutex.lock(); a poisoned lock makes the worker return
WorkerLock ==
    /\ worker_pc = "lock"
    /\ mutex = "free"
    /\ mutex' = "worker"
    /\ worker_pc' = IF poisoned THEN "exiting" ELSE "locked"
    /\ worker_locks' = Min(worker_locks + 1, 2)
    /\ UNCHANGED << should_exit, wants_access, poisoned, observer_pc, snapshots >>
    /\ UNCHANGED engine_vars
    /\ UNCHANGED driver_vars

\* a do_work step whose panic releases the mutex without poisoning it
WorkerDoWork_NoPoison(samples, infos_choices, may_skip) ==
    /\ worker_pc = "locked"
    /\ is_running(Engine)
    /\ UNCHANGED << should_exit, wants_access, observer_pc, snapshots, worker_locks >>
    /\ UNCHANGED driver_vars
    /\ StepDoWork(samples, infos_choices, may_skip)
    /\ IF panic' # "none"
       THEN worker_pc' = "panicked" /\ mutex' = "free" /\ UNCHANGED poisoned
       ELSE worker_pc' = "unlock" /\ UNCHANGED << mutex, poisoned >>

\* if state.is_running() { state.do_work() }: a panic in do_work unwinds the
\* thread, which drops the guard and poisons the mutex
WorkerDoWork(samples, infos_choices, may_skip) ==
    /\ worker_pc = "locked"
    /\ is_running(Engine)
    /\ UNCHANGED << should_exit, wants_access, observer_pc, snapshots, worker_locks >>
    /\ UNCHANGED driver_vars
    /\ StepDoWork(samples, infos_choices, may_skip)
    /\ IF panic' # "none"
       THEN worker_pc' = "panicked" /\ mutex' = "free" /\ poisoned' = TRUE
       ELSE worker_pc' = "unlock" /\ UNCHANGED << mutex, poisoned >>

\* else { should_exit.store(true); return }
WorkerStopClean ==
    /\ worker_pc = "locked"
    /\ ~is_running(Engine)
    /\ should_exit' = TRUE
    /\ worker_pc' = "exiting"
    /\ UNCHANGED << wants_access, mutex, poisoned, observer_pc, snapshots, worker_locks >>
    /\ UNCHANGED engine_vars
    /\ UNCHANGED driver_vars

\* the guard is dropped at the end of the loop body, or when the function returns
WorkerUnlock ==
    /\ worker_pc \in {"unlock", "exiting"}
    /\ mutex' = "free"
    /\ worker_pc' = IF worker_pc = "unlock" THEN "loop" ELSE "done"
    /\ UNCHANGED << should_exit, wants_access, poisoned, observer_pc, snapshots,
                    worker_locks >>
    /\ UNCHANGED engine_vars
    /\ UNCHANGED driver_vars

WorkerTerminated == worker_pc \in {"done", "panicked"}

\* ---- UI thread: UIKeyCracker::draw -> lock_state -> lock_dominant ----
\* lock_dominant: self.wants_access.store(true)
ObserverWant ==
    /\ observer_pc = "idle"
    /\ snapshots < MaxSnapshots
    /\ wants_access' = TRUE
    /\ worker_locks' = 0
    /\ observer_pc' = "want"
    /\ UNCHANGED << should_exit, mutex, poisoned, worker_pc, snapshots >>
    /\ UNCHANGED engine_vars
    /\ UNCHANGED driver_vars

\* lock_dominant: let guard = self.mutex.lock()
ObserverLock ==
    /\ observer_pc = "want"
    /\ mutex = "free"
    /\ mutex' = "observer"
    /\ observer_pc' = "clear"
    /\ UNCHANGED << should_exit, wants_access, poisoned, worker_pc, snapshots,
                    worker_locks >>
    /\ UNCHANGED engine_vars
    /\ UNCHANGED driver_vars

\* lock_dominant that forgets to clear wants_access
ObserverClear_KeepFlag ==
    /\ observer_pc = "clear"
    /\ wants_access' = wants_access
    /\ observer_pc' = "read"
    /\ UNCHANGED << should_exit, mutex, poisoned, worker_pc, snapshots, worker_locks >>
    /\ UNCHANGED engine_vars
    /\ UNCHANGED driver_vars

\* lock_dominant: self.wants_access.store(false); guard
ObserverClear ==
    /\ observer_pc = "clear"
    /\ wants_access' = FALSE
    /\ observer_pc' = "read"
    /\ UNCHANGED << should_exit, mutex, poisoned, worker_pc, snapshots, worker_locks >>
    /\ UNCHANGED engine_vars
    /\ UNCHANGED driver_vars

\* draw(): with Ok(cracker) the widgets read the state and the guard is
\* dropped at the end; with a poisoned lock draw returns at once
ObserverRead ==
    /\ observer_pc = "read"
    /\ snapshots' = IF poisoned THEN snapshots ELSE snapshots + 1
    /\ mutex' = "free"
    /\ observer_pc' = "idle"
    /\ UNCHANGED << should_exit, wants_access, poisoned, worker_pc, worker_locks >>
    /\ UNCHANGED engine_vars
    /\ UNCHANGED driver_vars

\* Drop for KeyCrackerThread: self.should_exit.store(true)
ObserverDrop(may_stop) ==
    /\ observer_pc = "idle"
    /\ may_stop
    /\ should_exit' = TRUE
    /\ observer_pc' = "join"
    /\ UNCHANGED << wants_access, mutex, poisoned, worker_pc, snapshots, worker_locks >>
    /\ UNCHANGED engine_vars
    /\ UNCHANGED driver_vars

\* a drop that joins the worker and ignores the result of the join
ObserverJoin_SwallowsPanic ==
    /\ observer_pc = "join"
    /\ WorkerTerminated
    /\ observer_pc' = "joined"
    /\ UNCHANGED << should_exit, wants_access, mutex, poisoned, worker_pc, snapshots,
                    worker_locks >>
    /\ UNCHANGED engine_vars
    /\ UNCHANGED driver_vars

\* Drop for KeyCrackerThread: handle.join(), a worker panic is resumed
ObserverJoin ==
    /\ observer_pc = "join"
    /\ WorkerTerminated
    /\ observer_pc' = IF worker_pc = "panicked" THEN "joined_panic" ELSE "joined"
    /\ UNCHANGED << should_exit, wants_access, mutex, poisoned, worker_pc, snapshots,
                    worker_locks >>
    /\ UNCHANGED engine_vars
    /\ UNCHANGED driver_vars

\* ---- the cracker scene: any samples, the UI may quit at any time ----
InitThread == InitThreadWith(ThreadSettings)

ThreadWorkerDoWork == WorkerDoWork(ThreadSamples, ThreadInfos, TRUE)

ThreadObserverDrop == ObserverDrop(TRUE)

Worker ==
    \/ WorkerLoop
    \/ WorkerSpin
    \/ WorkerLock
    \/ ThreadWorkerDoWork
    \/ WorkerStopClean
    \/ WorkerUnlock

\* the steps of the UI thread that are a call in progress: once begun they
\* run to their end
ObserverInCall ==
    \/ ObserverLock
    \/ ObserverClear
    \/ ObserverRead
    \/ ObserverJoin

NextThread ==
    \/ Worker
    \/ ObserverWant
    \/ ObserverInCall
    \/ ThreadObserverDrop

SpecThread == InitThread /\ [][NextThread]_vars

\* both threads are scheduled: a thread that can take a step (a mutex.lock()
\* on a free mutex included) eventually takes one.  When the UI thread
\* draws or quits is not constrained.
FairSpecThread == SpecThread /\ WF_vars(Worker) /\ WF_vars(ObserverInCall)

\* ---- the concurrency smoke run: the worker processes MaxSamples samples
\* while the UI thread takes MaxSnapshots snapshots; the scores stay under the
\* thresholds, the provider hands out all its samples, and the thread is
\* dropped once the snapshots are taken and the samples used up ----
InitSmoke == InitThreadWith(ThreadSettings)

SmokeWorkerDoWork == WorkerDoWork(ThreadSamples, NotReadyInfos, FALSE)

SmokeObserverDrop == ObserverDrop(snapshots = MaxSnapshots /\ provided = MaxSamples)

\* WorkerStopClean is left out: the engine of this run stays in SampleCollection
SmokeWorker ==
    \/ WorkerLoop
    \/ WorkerSpin
    \/ WorkerLock
    \/ SmokeWorkerDoWork
    \/ WorkerUnlock

SmokeObserver ==
    \/ ObserverWant
    \/ ObserverInCall
    \/ SmokeObserverDrop

NextSmoke == SmokeWorker \/ SmokeObserver

SpecSmoke == InitSmoke /\ [][NextSmoke]_vars

\* both threads of the smoke run keep going
FairSpecSmoke == SpecSmoke /\ WF_vars(SmokeWorker) /\ WF_vars(SmokeObserver)

\* ------------------------------------------------------------------------
\* A TestSampleBuffer driven on its own: new(), accept_sample() calls, and a
\* test_wep_key() call that ends the run
\* ------------------------------------------------------------------------
\* largest capacity and largest period of the buffers driven on their own
MaxBufferSize == 2
MaxPeriod == 2
\* samples offered to a buffer driven on its own
MaxOffered == 4

\* test_threshold_fract: 0.0, 0.25, 0.5 and 1.0, all exact as f64
BufferFracts == { [num |-> n, den |-> 4] : n \in {0, 1, 2, 4} }

\* frames of the network and stray frames
BufferSamples == { Sample104, SampleStray }

\* the key test_wep_key is called with
BufferTestKey == Wep104Key(TrueKey104)

InitBuffer ==
    /\ CrackerIdle
    /\ PredictorIdle
    /\ key_tester = None
    /\ panic = "none"
    /\ TesterIdle
    /\ UnitIdle
    /\ ThreadsIdle
    /\ offered = << >>
    /\ admitted = << >>
    /\ \E buffer_size \in 1..MaxBufferSize, sample_period \in 1..MaxPeriod,
          fract \in BufferFracts :
          test_sample_buf = TestSampleBufferNew(buffer_size, sample_period, fract)

\* one accept_sample() call; the call appended its sample iff it reset the
\* period counter (lines 49-57 run together)
BufferAccept ==
    /\ call_out = None
    /\ Len(offered) < MaxOffered
    /\ \E sample \in BufferSamples :
          /\ test_sample_buf' = TestBufAcceptSample(test_sample_buf, sample)
          /\ offered' = Append(offered, sample)
          /\ admitted' = IF test_sample_buf'.period_timer = 0
                          THEN Append(admitted, sample)
                          ELSE admitted
    /\ UNCHANGED << phase, delay_timer, num_samples, sigma_votes, key_byte_infos,
                    key_tester, cracked_key, panic, provided, no_sample >>
    /\ UNCHANGED << tester_vars, unit_vars >>
    /\ UNCHANGED thread_vars

\* one test_wep_key() call
BufferTest ==
    /\ call_out = None
    /\ call_in' = BufferTestKey
    /\ call_out' = [tag |-> "Some", ret |-> test_wep_key(test_sample_buf, BufferTestKey)]
    /\ UNCHANGED rc4
    /\ UNCHANGED engine_vars
    /\ UNCHANGED << tester_vars, buffer_vars >>
    /\ UNCHANGED thread_vars

NextBuffer == BufferAccept \/ BufferTest

SpecBuffer == InitBuffer /\ [][NextBuffer]_vars

\* ------------------------------------------------------------------------
\* A KeyPredictor driven on its own: new(), then accept_sample() calls
\* ------------------------------------------------------------------------
\* accept_sample() calls a predictor driven on its own is followed for
MaxAccepted == 6

\* IVs of the frames the predictor is fed
PredictorIVs ==
    { SampleIV, ByteArray(<< 0, 0, 0 >>), ByteArray(<< 4, 255, 9 >>) }

\* frames of the 104-bit network under several IVs, and a stray frame
PredictorSamples ==
    { KeystreamSample(iv, gen_keystream(create_rc4(Wep104Key(TrueKey104), iv),
                                        KEYSTREAM_LEN)) : iv \in PredictorIVs }
    \cup { SampleStray }

InitPredictor ==
    /\ CrackerIdle
    /\ test_sample_buf = None
    /\ key_tester = None
    /\ panic = "none"
    /\ DriversIdle
    /\ ThreadsIdle
    /\ num_samples = KeyPredictorNew.num_samples
    /\ sigma_votes = KeyPredictorNew.sigma_votes

\* one accept_sample() call
PredictorAccept ==
    /\ num_samples < MaxAccepted
    /\ UNCHANGED << phase, delay_timer, key_byte_infos, test_sample_buf, key_tester,
                    cracked_key, panic, provided, no_sample >>
    /\ UNCHANGED driver_vars
    /\ UNCHANGED thread_vars
    /\ \E sample \in PredictorSamples :
          \E after \in { PredictorAcceptSample(
                             [num_samples |-> num_samples, sigma_votes |-> sigma_votes],
                             sample) } :
              /\ num_samples' = after.num_samples
              /\ sigma_votes' = after.sigma_votes

NextPredictor == PredictorAccept

SpecPredictor == InitPredictor /\ [][NextPredictor]_vars

\* ------------------------------------------------------------------------
\* A KeyTester built from the sigma sums of a key, all Normal: new(), then
\* one current_key() call
\* ------------------------------------------------------------------------
\* byte values the keys are varied with
ReconstructBytes == { 0, 50, 100, 150, 200, 255 }

\* 13-byte keys: the network's key with one byte replaced, and keys of one
\* repeated byte
ReconstructKeys ==
    { [TrueKey104 EXCEPT ![pos] = b] : pos \in 0..(LEN_104 - 1), b \in ReconstructBytes }
    \cup { [i \in 0..(LEN_104 - 1) |-> b] : b \in ReconstructBytes }

SigmasOf(key) == [i \in 0..(LEN_104 - 1) |-> SigmaSum(key, i)]

InitReconstruct ==
    /\ EngineIdle
    /\ ThreadsIdle
    /\ TesterIdle
    /\ BufferIdle
    /\ panic = "none"
    /\ rc4 = None
    /\ call_out = None
    /\ \E key \in ReconstructKeys :
          /\ call_in = key
          /\ key_tester = KeyTesterNew(PredsFor({}, SigmasOf(key)))

\* one current_key() call
ReconstructCurrentKey ==
    /\ call_out = None
    /\ ~CurrentKeyPanics(key_tester)
    /\ call_out' = [tag |-> "Some", key |-> current_key(key_tester)]
    /\ UNCHANGED << rc4, call_in >>
    /\ UNCHANGED engine_vars
    /\ UNCHANGED << tester_vars, buffer_vars >>
    /\ UNCHANGED thread_vars

NextReconstruct == ReconstructCurrentKey

SpecReconstruct == InitReconstruct /\ [][NextReconstruct]_vars

\* ------------------------------------------------------------------------
\* An RC4Cipher driven on its own: from_key(), then gen_keystream_byte() calls
\* ------------------------------------------------------------------------
\* gen_keystream_byte() calls a cipher driven on its own is followed for
MaxKeystream == 10

\* the vectors of tests::test_rc4: "Key" and "Secret" in ASCII
TestVectorKey ==
    [key |-> ByteArray(<< 75, 101, 121 >>),
     keystream |-> << 235, 159, 119, 129, 183, 52, 202, 114, 167, 25 >>]
TestVectorSecret ==
    [key |-> ByteArray(<< 83, 101, 99, 114, 101, 116 >>),
     keystream |-> << 4, 212, 107, 5, 60, 168, 123, 89 >>]

\* keys the cipher is built from: the test keys, keys of one to three bytes,
\* the network's keys, and a key of 16 bytes
RC4Keys ==
    { TestVectorKey.key, TestVectorSecret.key,
      ByteArray(<< 0 >>), ByteArray(<< 1 >>), ByteArray(<< 255 >>),
      ByteArray(<< 1, 2 >>), ByteArray(<< 255, 255 >>), ByteArray(<< 87, 105, 107, 105 >>),
      SampleIV, TrueKey40, TrueKey104, [k \in 0..15 |-> 255 - k] }

InitRC4 ==
    /\ EngineIdle
    /\ key_tester = None
    /\ panic = "none"
    /\ ThreadsIdle
    /\ TesterIdle
    /\ BufferIdle
    /\ call_out = << >>
    /\ \E key \in RC4Keys :
          /\ call_in = key
          /\ rc4 = from_key(key)

\* one gen_keystream_byte() call
RC4GenKeystreamByte ==
    /\ Len(call_out) < MaxKeystream
    /\ UNCHANGED call_in
    /\ UNCHANGED engine_vars
    /\ UNCHANGED << tester_vars, buffer_vars >>
    /\ UNCHANGED thread_vars
    /\ \E r \in { gen_keystream_byte(rc4) } :
          /\ rc4' = r.cipher
          /\ call_out' = Append(call_out, r.byte)

NextRC4 == RC4GenKeystreamByte

SpecRC4 == InitRC4 /\ [][NextRC4]_vars

\* ------------------------------------------------------------------------
\* An RC4Cipher whose key schedule is run in two calls: default(), then
\* do_partial_keyschedule(prefix) and do_partial_keyschedule(suffix)
\* ------------------------------------------------------------------------
\* &arr[lo..hi]
Slice(arr, lo, hi) == [k \in 0..(hi - lo - 1) |-> arr[lo + k]]

\* keys whose tiling to 256 bytes is absorbed in two calls: a key whose
\* length does not divide 256, and the RC4 seeds iv || key of create_rc4
TiledKeys ==
    { ByteArray(<< 75, 101, 121 >>),
      [k \in 0..(3 + LEN_40 - 1) |-> IF k < 3 THEN SampleIV[k] ELSE TrueKey40[k - 3]],
      [k \in 0..(3 + LEN_104 - 1) |-> IF k < 3 THEN SampleIV[k] ELSE TrueKey104[k - 3]] }

\* places a 256-byte sequence is split at
TiledSplits == { 0, 3, 16, 128, 255, 256 }

\* short byte sequences, split at every place
ShortSequences ==
    { ByteArray(<< 1, 2, 3, 4 >>), ByteArray(<< 255, 0, 255 >>), ByteArray(<< 7 >>),
      [k \in 0..(3 + LEN_104 - 1) |-> IF k < 3 THEN SampleIV[k] ELSE TrueKey104[k - 3]] }

\* the (bytes, split) pairs; key is the key the bytes are the tiling of
KeyscheduleInputs ==
    { [bytes |-> bytes, split |-> split, tiled |-> FALSE, key |-> bytes] :
          bytes \in ShortSequences, split \in 0..(3 + LEN_104) }
    \cup { [bytes |-> TileKey(key), split |-> split, tiled |-> TRUE, key |-> key] :
               key \in TiledKeys, split \in TiledSplits }

InitKeyschedule ==
    /\ EngineIdle
    /\ key_tester = None
    /\ panic = "none"
    /\ ThreadsIdle
    /\ TesterIdle
    /\ BufferIdle
    /\ rc4 = RC4Default
    /\ call_out = None
    /\ \E input \in KeyscheduleInputs :
          /\ input.split <= Len0(input.bytes)
          /\ call_in = input

\* do_partial_keyschedule(prefix)
KeyschedulePrefix ==
    /\ call_out = None
    /\ rc4' = do_partial_keyschedule(rc4, Slice(call_in.bytes, 0, call_in.split))
    /\ call_out' = [tag |-> "Some", calls |-> 1]
    /\ UNCHANGED call_in
    /\ UNCHANGED engine_vars
    /\ UNCHANGED << tester_vars, buffer_vars >>
    /\ UNCHANGED thread_vars

\* do_partial_keyschedule(suffix)
KeyscheduleSuffix ==
    /\ call_out # None
    /\ call_out.calls = 1
    /\ rc4' = do_partial_keyschedule(rc4, Slice(call_in.bytes, call_in.split,
                                                Len0(call_in.bytes)))
    /\ call_out' = [tag |-> "Some", calls |-> 2]
    /\ UNCHANGED call_in
    /\ UNCHANGED engine_vars
    /\ UNCHANGED << tester_vars, buffer_vars >>
    /\ UNCHANGED thread_vars

NextKeyschedule == KeyschedulePrefix \/ KeyscheduleSuffix

SpecKeyschedule == InitKeyschedule /\ [][NextKeyschedule]_vars

\* ------------------------------------------------------------------------
\* A KeyTester and a TestSampleBuffer: new() of both, accept_sample() calls
\* that fill the buffer, then one test_current_key() call
\* ------------------------------------------------------------------------
\* prediction arrays of the testers: all Normal, one Strong byte, and the
\* WEP-40 shape, with right and wrong sigmas
TestKeyPredictions ==
    { PredsFor(ss, sigmas) :
          ss \in { {}, {2}, {3}, LEN_40..(LEN_104 - 1), {2} \cup (LEN_40..(LEN_104 - 1)) },
          sigmas \in { TrueSigmas, WrongSigmas } }

\* the samples the buffer has accepted: up to two frames
TestKeyContents ==
    { << >> } \cup { << a >> : a \in Samples } \cup { << a, b >> : a, b \in Samples }

\* the buffer after accept_sample() of each sample of a sequence
RECURSIVE AcceptAll(_, _)
AcceptAll(buf, samples) ==
    IF samples = << >> THEN buf
    ELSE AcceptAll(TestBufAcceptSample(buf, Head(samples)), Tail(samples))

InitTestKey ==
    /\ CrackerIdle
    /\ PredictorIdle
    /\ panic = "none"
    /\ ThreadsIdle
    /\ TesterIdle
    /\ BufferIdle
    /\ rc4 = None
    /\ call_in = None
    /\ call_out = None
    /\ \E key_predictions \in TestKeyPredictions :
          key_tester = KeyTesterNew(key_predictions)
    /\ \E fract \in BufferFracts, samples \in TestKeyContents :
          test_sample_buf = AcceptAll(TestSampleBufferNew(MaxBufferSize, 1, fract), samples)

\* one test_current_key() call
TestKeyCall ==
    /\ call_out = None
    /\ ~CurrentKeyPanics(key_tester)
    /\ call_out' = [tag |-> "Some", ret |-> test_current_key(key_tester, test_sample_buf)]
    /\ UNCHANGED << rc4, call_in >>
    /\ UNCHANGED engine_vars
    /\ UNCHANGED << tester_vars, buffer_vars >>
    /\ UNCHANGED thread_vars

NextTestKey == TestKeyCall

SpecTestKey == InitTestKey /\ [][NextTestKey]_vars

\* ------------------------------------------------------------------------
\* RC4Cipher::from_key() on keys of many lengths
\* ------------------------------------------------------------------------
\* key lengths: the short ones, the divisors of 256, lengths whose last tile
\* is cut short, and the longest
FromKeyLengths == (1..17) \cup { 32, 64, 100, 127, 128, 129, 255, 256 }

\* key[k] = (a * k + b) mod 256 for three choices of (a, b), and the RC4
\* seeds iv || key of create_rc4
FromKeyKeys ==
    { [k \in 0..(n - 1) |-> (ab[1] * k + ab[2]) % 256] :
          n \in FromKeyLengths, ab \in { << 1, 1 >>, << 7, 250 >>, << 0, 255 >> } }
    \cup TiledKeys

InitFromKey ==
    /\ EngineIdle
    /\ key_tester = None
    /\ panic = "none"
    /\ ThreadsIdle
    /\ TesterIdle
    /\ BufferIdle
    /\ rc4 = None
    /\ call_out = None
    /\ call_in \in FromKeyKeys

\* RC4Cipher::from_key(key)
FromKeyCall ==
    /\ call_out = None
    /\ rc4' = from_key(call_in)
    /\ call_out' = [tag |-> "Some"]
    /\ UNCHANGED call_in
    /\ UNCHANGED engine_vars
    /\ UNCHANGED << tester_vars, buffer_vars >>
    /\ UNCHANGED thread_vars

NextFromKey == FromKeyCall

SpecFromKey == InitFromKey /\ [][NextFromKey]_vars

\* ------------------------------------------------------------------------
\* The engine in CandidateKeyTesting on snapshots whose bytes 5..12 are all
\* Strong; visited holds the 5-byte keys test_current_key has passed to
\* test_wep_key as WEP-40 keys.
\* ------------------------------------------------------------------------
\* Strong positions below LEN_40 of the snapshots
Wep40LowStrong ==
    { {}, {1}, {2}, {3}, {4}, {1, 2}, {1, 3}, {2, 3}, {1, 4}, {2, 4} }

Wep40Predictions ==
    { PredsFor(ss \cup (LEN_40..(LEN_104 - 1)), sigmas) :
          ss \in Wep40LowStrong, sigmas \in { TrueSigmas, WrongSigmas } }

\* full one-frame buffers: a frame no candidate reproduces, and a frame of
\* the network when its key is the 40-bit key
Wep40Buffers ==
    { TestBufAcceptSample(TestSampleBufferNew(1, 1, [num |-> 1, den |-> 1]), sample) :
          sample \in { SampleStray, Sample40 } }

\* key40.copy_from_slice(&key[..LEN_40])
Key40Prefix(key) == [k \in 0..(LEN_40 - 1) |-> key[k]]

\* does test_current_key reach its test_wep_key(&key40) call
TestsKey40(t, buf) ==
    /\ ~test_wep_key(buf, Wep104Key(current_key(t)))
    /\ t.maybe_wep40

InitWep40 ==
    /\ ThreadsIdle
    /\ BufferIdle
    /\ UnitIdle
    /\ adv_calls = 0
    /\ adv_ret = "none"
    /\ hi_advanced = FALSE
    /\ visited = {}
    /\ delay_timer = 0
    /\ PredictorIdle
    /\ key_byte_infos = None
    /\ cracked_key = None
    /\ provided = 0
    /\ no_sample = 0
    /\ panic = "none"
    /\ phase = "CandidateKeyTesting"
    /\ test_sample_buf \in Wep40Buffers
    /\ \E key_predictions \in Wep40Predictions :
          key_tester = KeyTesterNew(key_predictions)

\* one do_work() in CandidateKeyTesting
Wep40DoWork ==
    /\ panic = "none"
    /\ phase = "CandidateKeyTesting"
    /\ WithinTestedKeys
    /\ visited' = IF TestsKey40(key_tester, test_sample_buf)
                  THEN visited \cup { Key40Prefix(current_key(key_tester)) }
                  ELSE visited
    /\ SetEngine(do_work(Engine, None, key_byte_infos))
    /\ UNCHANGED << provided, no_sample >>
    /\ UNCHANGED << adv_calls, adv_ret, hi_advanced, buffer_vars, unit_vars >>
    /\ UNCHANGED thread_vars

NextWep40 == Wep40DoWork

SpecWep40 == InitWep40 /\ [][NextWep40]_vars

\* ------------------------------------------------------------------------
\* The collection phase over several readiness checks: do_work() called
\* with a provider that hands out up to MaxCollected frames and may return
\* "no sample" in between, and a predictor whose scores are over the
\* thresholds at some checks and not at others
\* ------------------------------------------------------------------------
MaxCollected == 5

ReadySettings ==
    SettingsChoices
    \cup { [num_test_samples |-> 2, test_sample_period |-> 2,
            test_sample_threshold |-> [num |-> 1, den |-> 4]] }

ReadyInfos ==
    { InfosFor(PredsFor({}, TrueSigmas), AllBytes),
      InfosFor(PredsFor({}, TrueSigmas), AllBytes \ {LEN_104 - 1}) }

InitReady ==
    /\ InitEngineWith(ReadySettings)
    /\ ThreadsIdle
    /\ DriversIdle

ReadyDoWork ==
    /\ panic = "none"
    /\ IF phase = "SampleCollection"
       THEN \/ /\ provided < MaxCollected
               /\ \E sample \in {Sample104, SampleStray}, infos \in ReadyInfos :
                     SetEngine(do_work(Engine, [tag |-> "Some", sample |-> sample], infos))
               /\ provided' = provided + 1
               /\ no_sample' = no_sample
            \/ /\ SetEngine(do_work(Engine, None, key_byte_infos))
               /\ provided' = provided
               /\ no_sample' = Min(no_sample + 1, MaxNoSample)
       ELSE /\ SetEngine(do_work(Engine, None, key_byte_infos))
            /\ UNCHANGED << provided, no_sample >>
    /\ UNCHANGED driver_vars
    /\ UNCHANGED thread_vars

NextReady == ReadyDoWork

SpecReady == InitReady /\ [][NextReady]_vars

\* ------------------------------------------------------------------------
\* The cracker scene with a predictor that may classify key byte 0 as Strong
\* at the readiness check: the worker then fails inside the transition to
\* CandidateKeyTesting while the UI thread goes on drawing
\* ------------------------------------------------------------------------
PresentInfos ==
    ThreadInfos \cup { InfosFor(PredsFor({0}, TrueSigmas), AllBytes) }

PresentWorkerDoWork == WorkerDoWork(ThreadSamples, PresentInfos, TRUE)

NextPresent ==
    \/ WorkerLoop
    \/ WorkerSpin
    \/ WorkerLock
    \/ PresentWorkerDoWork
    \/ WorkerStopClean
    \/ WorkerUnlock
    \/ ObserverWant
    \/ ObserverInCall
    \/ ThreadObserverDrop

SpecPresent == InitThread /\ [][NextPresent]_vars

\* ------------------------------------------------------------------------
\* accept_sample() of a TestSampleBuffer followed statement by statement:
\* the period counter, then the eviction loop one iteration at a time, then
\* the push_back; capacities from 0 on. call_in holds the call in progress.
\* ------------------------------------------------------------------------
AcceptFract == [num |-> 1, den |-> 4]

InitAccept ==
    /\ CrackerIdle
    /\ PredictorIdle
    /\ key_tester = None
    /\ panic = "none"
    /\ TesterIdle
    /\ UnitIdle
    /\ ThreadsIdle
    /\ offered = << >>
    /\ admitted = << >>
    /\ \E buffer_size \in 0..MaxBufferSize, sample_period \in 1..MaxPeriod :
          test_sample_buf = TestSampleBufferNew(buffer_size, sample_period, AcceptFract)

\* lines 43-49: period_timer += 1; return if it is under sample_period,
\* else period_timer = 0 and the call goes on to the loop
AcceptCall ==
    /\ call_in = None
    /\ Len(offered) < MaxOffered
    /\ \E sample \in BufferSamples :
          LET timer == test_sample_buf.period_timer + 1
          IN /\ offered' = Append(offered, sample)
             /\ IF timer < test_sample_buf.sample_period
                THEN /\ test_sample_buf' = [test_sample_buf EXCEPT !.period_timer = timer]
                     /\ call_in' = None
                ELSE /\ test_sample_buf' = [test_sample_buf EXCEPT !.period_timer = 0]
                     /\ call_in' = [tag |-> "Some", sample |-> sample]
    /\ UNCHANGED << admitted, rc4, call_out >>
    /\ UNCHANGED << phase, delay_timer, num_samples, sigma_votes, key_byte_infos,
                    key_tester, cracked_key, panic, provided, no_sample >>
    /\ UNCHANGED tester_vars
    /\ UNCHANGED thread_vars

\* lines 52-54: one iteration of the loop whose condition holds
AcceptPopFront ==
    /\ call_in # None
    /\ Len(test_sample_buf.samples) >= test_sample_buf.buffer_size
    /\ test_sample_buf' = [test_sample_buf EXCEPT !.samples = PopFront(@)]
    /\ UNCHANGED << offered, admitted, unit_vars >>
    /\ UNCHANGED << phase, delay_timer, num_samples, sigma_votes, key_byte_infos,
                    key_tester, cracked_key, panic, provided, no_sample >>
    /\ UNCHANGED tester_vars
    /\ UNCHANGED thread_vars

\* lines 52 and 57: the loop condition is false, push_back, return
AcceptPushBack ==
    /\ call_in # None
    /\ ~(Len(test_sample_buf.samples) >= test_sample_buf.buffer_size)
    /\ test_sample_buf' = [test_sample_buf EXCEPT !.samples = Append(@, call_in.sample)]
    /\ admitted' = Append(admitted, call_in.sample)
    /\ call_in' = None
    /\ UNCHANGED << offered, rc4, call_out >>
    /\ UNCHANGED << phase, delay_timer, num_samples, sigma_votes, key_byte_infos,
                    key_tester, cracked_key, panic, provided, no_sample >>
    /\ UNCHANGED tester_vars
    /\ UNCHANGED thread_vars

NextAccept == AcceptCall \/ AcceptPopFront \/ AcceptPushBack

SpecAccept == InitAccept /\ [][NextAccept]_vars

\* a call in progress keeps running
FairSpecAccept ==
    SpecAccept /\ WF_vars(AcceptPopFront) /\ WF_vars(AcceptPushBack)

\* ------------------------------------------------------------------------
\* An RC4Cipher created by default() or from_key() and then called in any
\* order: do_partial_keyschedule, gen_keystream_byte, gen_keystream.
\* call_in says how the cipher was created, call_out lists the calls made.
\* ------------------------------------------------------------------------
\* calls made on one cipher
MaxCipherCalls == 3

\* keys for from_key
CipherKeys == { TestVectorKey.key, TrueKey40, [k \in 0..15 |-> 255 - k] }

\* key slices for do_partial_keyschedule: empty, an IV, a full 256-byte key
CipherSlices == { ByteArray(<< >>), SampleIV, TileKey(TestVectorSecret.key) }

\* buffer lengths for gen_keystream
CipherLengths == { 0, 2, KEYSTREAM_LEN }

\* the cipher after gen_keystream on a buffer of len bytes
RECURSIVE CipherAfterKeystream(_, _)
CipherAfterKeystream(c, len) ==
    IF len = 0 THEN c
    ELSE Bind(gen_keystream_byte(c).cipher,
              LAMBDA next : CipherAfterKeystream(next, len - 1))

InitCipher ==
    /\ EngineIdle
    /\ key_tester = None
    /\ panic = "none"
    /\ ThreadsIdle
    /\ TesterIdle
    /\ BufferIdle
    /\ call_out = << >>
    /\ \/ call_in = "default" /\ rc4 = RC4Default
       \/ call_in = "from_key" /\ \E key \in CipherKeys : rc4 = from_key(key)

CipherCallDone(name) ==
    /\ call_out' = Append(call_out, name)
    /\ UNCHANGED call_in
    /\ UNCHANGED << phase, delay_timer, num_samples, sigma_votes, key_byte_infos,
                    test_sample_buf, key_tester, cracked_key, provided, no_sample >>
    /\ UNCHANGED << tester_vars, buffer_vars >>
    /\ UNCHANGED thread_vars

\* do_partial_keyschedule(key): the assertion i + key.len() <= 256 first
CipherPartialKeyschedule ==
    /\ panic = "none"
    /\ Len(call_out) < MaxCipherCalls
    /\ \E key \in CipherSlices :
          IF rc4.i + Len0(key) <= 256
          THEN rc4' = do_partial_keyschedule(rc4, key) /\ UNCHANGED panic
          ELSE UNCHANGED rc4 /\ panic' = "assert_keyschedule"
    /\ CipherCallDone("do_partial_keyschedule")

CipherGenKeystreamByte ==
    /\ panic = "none"
    /\ Len(call_out) < MaxCipherCalls
    /\ rc4' = gen_keystream_byte(rc4).cipher
    /\ UNCHANGED panic
    /\ CipherCallDone("gen_keystream_byte")

CipherGenKeystream ==
    /\ panic = "none"
    /\ Len(call_out) < MaxCipherCalls
    /\ \E len \in CipherLengths : rc4' = CipherAfterKeystream(rc4, len)
    /\ UNCHANGED panic
    /\ CipherCallDone("gen_keystream")

NextCipher == CipherPartialKeyschedule \/ CipherGenKeystreamByte \/ CipherGenKeystream

SpecCipher == InitCipher /\ [][NextCipher]_vars

\* ------------------------------------------------------------------------
\* UIKeyCracker::should_quit -> KeyCrackerThread::did_crash, called by the UI
\* thread while the worker runs.  call_in holds the value the call has
\* loaded from should_exit, call_out the value the call returned.
\* ------------------------------------------------------------------------
\* JoinHandle::is_finished
is_finished == WorkerTerminated

\* did_crash: !self.should_exit.load(SeqCst), the left operand of &&
DidCrashLoad ==
    /\ observer_pc = "idle"
    /\ call_in = None
    /\ call_in' = [tag |-> "Some", should_exit |-> should_exit]
    /\ call_out' = None
    /\ UNCHANGED rc4
    /\ UNCHANGED << tester_vars, buffer_vars >>
    /\ UNCHANGED engine_vars
    /\ UNCHANGED thread_vars

\* did_crash: && match self.thread.as_ref() { Some(thread) => thread.is_finished(), .. }
DidCrashFinished ==
    /\ call_in # None
    /\ call_out' = [tag |-> "Some",
                    ret |-> IF call_in.should_exit THEN FALSE ELSE is_finished]
    /\ call_in' = None
    /\ UNCHANGED rc4
    /\ UNCHANGED << tester_vars, buffer_vars >>
    /\ UNCHANGED engine_vars
    /\ UNCHANGED thread_vars

InitCrash == InitThread

\* the UI thread drops the KeyCrackerThread between two calls, not inside one
CrashObserverDrop == call_in = None /\ ThreadObserverDrop

NextCrash ==
    \/ Worker
    \/ DidCrashLoad
    \/ DidCrashFinished
    \/ CrashObserverDrop
    \/ ObserverJoin

SpecCrash == InitCrash /\ [][NextCrash]_vars

\* ------------------------------------------------------------------------
\* The two candidate enumerations side by side: the KeyCracker of
\* ui/keycrack (strong_opt_idxs, highest Strong position stepped last in its
\* reversed loop) and the KeyCracker of ui/keycracker with its KeyTester, on
\* the same prediction snapshot and a test buffer that no candidate passes.
\* call_in holds the earlier engine with the keys it has tested; visited
\* holds the keys the KeyTester engine has tested.
\* ------------------------------------------------------------------------
\* KeyBytePredictionInfo::num_strong_options(i): the option indices are
\* 0..i-1, with l = 1 + index
num_strong_options(i) == i

\* the key construction loop of the earlier do_work from byte i
RECURSIVE OldCurrentKeyFrom(_, _, _, _, _)
OldCurrentKeyFrom(key_predictions, strong_opt_idxs, key, prev_sigma, i) ==
    IF i >= LEN_104 THEN key
    ELSE Bind(IF IsStrong(key_predictions[i])
              THEN LET inv_rk == InvRkSum(key, 1 + strong_opt_idxs[i], i) + 3 + i
                   IN RemEuclid256(prev_sigma - inv_rk)
              ELSE key_predictions[i].sigma,
              LAMBDA sigma :
                 Bind([key EXCEPT ![i] = RemEuclid256(sigma - prev_sigma)],
                      LAMBDA key2 :
                          OldCurrentKeyFrom(key_predictions, strong_opt_idxs,
                                            key2, sigma, i + 1)))

OldCurrentKey(o) ==
    OldCurrentKeyFrom(o.key_predictions, o.strong_opt_idxs,
                      [i \in 0..(LEN_104 - 1) |-> 0], 0, 0)

\* 'incr_loop: for i in (0..LEN_104).rev(), from position i downwards
RECURSIVE OldIncrFrom(_, _, _)
OldIncrFrom(key_predictions, strong_opt_idxs, i) ==
    IF i < 0 THEN [strong_opt_idxs |-> strong_opt_idxs, has_next_key |-> FALSE]
    ELSE IF ~IsStrong(key_predictions[i])
         THEN OldIncrFrom(key_predictions, strong_opt_idxs, i - 1)
    ELSE IF strong_opt_idxs[i] + 1 >= num_strong_options(i)
         THEN OldIncrFrom(key_predictions, [strong_opt_idxs EXCEPT ![i] = 0], i - 1)
         ELSE [strong_opt_idxs |-> [strong_opt_idxs EXCEPT ![i] = @ + 1],
               has_next_key |-> TRUE]

\* the earlier do_work in CandidateKeyTesting
OldDoWorkCandidateKeyTesting(o, buf) ==
    Bind(OldCurrentKey(o), LAMBDA key :
        LET o1 == [o EXCEPT !.tested = @ \cup {key}]
        IN IF test_wep_key(buf, Wep104Key(key))
           THEN [o1 EXCEPT !.phase = "FinishedSuccess"]
           ELSE Bind(OldIncrFrom(o.key_predictions, o.strong_opt_idxs, LEN_104 - 1),
                     LAMBDA r :
                        IF r.has_next_key
                        THEN [o1 EXCEPT !.strong_opt_idxs = r.strong_opt_idxs]
                        ELSE [o1 EXCEPT !.strong_opt_idxs = r.strong_opt_idxs,
                                        !.phase = "FinishedFailure"]))

\* the phase CandidateKeyTesting { key_predictions, strong_opt_idxs: [0; 13] }
OldCandidateKeyTesting(key_predictions) ==
    [phase |-> "CandidateKeyTesting",
     key_predictions |-> key_predictions,
     strong_opt_idxs |-> [i \in 0..(LEN_104 - 1) |-> 0],
     tested |-> {}]

\* snapshots with Strong positions among 1..4, with sigmas that are not
\* the key's
ComparePredictions ==
    { PredsFor(ss, WrongSigmas) : ss \in { {2}, {3}, {4}, {2, 3}, {2, 4}, {1, 3} } }

\* a full buffer whose only frame no candidate reproduces
CompareBuffer ==
    TestBufAcceptSample(TestSampleBufferNew(1, 1, [num |-> 1, den |-> 1]), SampleStray)

InitCompare ==
    /\ ThreadsIdle
    /\ BufferIdle
    /\ rc4 = None
    /\ call_out = None
    /\ adv_calls = 0
    /\ adv_ret = "none"
    /\ hi_advanced = FALSE
    /\ visited = {}
    /\ delay_timer = 0
    /\ PredictorIdle
    /\ key_byte_infos = None
    /\ cracked_key = None
    /\ provided = 0
    /\ no_sample = 0
    /\ panic = "none"
    /\ phase = "CandidateKeyTesting"
    /\ test_sample_buf = CompareBuffer
    /\ \E key_predictions \in ComparePredictions :
          /\ key_tester = KeyTesterNew(key_predictions)
          /\ call_in = OldCandidateKeyTesting(key_predictions)

\* one do_work() of the earlier engine
CompareOldDoWork ==
    /\ call_in.phase = "CandidateKeyTesting"
    /\ call_in' = OldDoWorkCandidateKeyTesting(call_in, test_sample_buf)
    /\ UNCHANGED engine_vars
    /\ UNCHANGED << tester_vars, buffer_vars, rc4, call_out >>
    /\ UNCHANGED thread_vars

\* one do_work() of the engine with the KeyTester
CompareNewDoWork ==
    /\ panic = "none"
    /\ phase = "CandidateKeyTesting"
    /\ visited' = visited \cup { current_key(key_tester) }
    /\ SetEngine(do_work(Engine, None, key_byte_infos))
    /\ UNCHANGED << provided, no_sample >>
    /\ UNCHANGED << adv_calls, adv_ret, hi_advanced, buffer_vars, unit_vars >>
    /\ UNCHANGED thread_vars

NextCompare == CompareOldDoWork \/ CompareNewDoWork

SpecCompare == InitCompare /\ [][NextCompare]_vars

\* ------------------------------------------------------------------------
\* KeyPredictor::accept_sample() called again and again, the sample of the
\* last call kept
\* ------------------------------------------------------------------------
\* the samples of PredictorSamples, and two more: an IV of 255s, and a
\* keystream of 255s under the IV of zeros
VoteSamples ==
    PredictorSamples
    \cup { KeystreamSample(ByteArray(<< 255, 255, 255 >>),
                           gen_keystream(create_rc4(Wep104Key(TrueKey104),
                                                    ByteArray(<< 255, 255, 255 >>)),
                                         KEYSTREAM_LEN)),
           KeystreamSample(ByteArray(<< 0, 0, 0 >>),
                           [k \in 0..(KEYSTREAM_LEN - 1) |-> 255]) }

InitVote == InitPredictor

VoteAccept ==
    /\ num_samples < MaxAccepted
    /\ UNCHANGED << phase, delay_timer, key_byte_infos, test_sample_buf, key_tester,
                    cracked_key, panic, provided, no_sample >>
    /\ UNCHANGED << tester_vars, buffer_vars, rc4, call_out >>
    /\ UNCHANGED thread_vars
    /\ \E sample \in VoteSamples :
          /\ call_in' = sample
          /\ \E after \in { PredictorAcceptSample(
                                 [num_samples |-> num_samples, sigma_votes |-> sigma_votes],
                                 sample) } :
                /\ num_samples' = after.num_samples
                /\ sigma_votes' = after.sigma_votes

NextVote == VoteAccept

SpecVote == InitVote /\ [][NextVote]_vars

\* ------------------------------------------------------------------------
\* KeyPredictor with its OnceCell of per-byte infos: accept_sample() and
\* key_byte_infos() called in any order
\* ------------------------------------------------------------------------
\* a maximum search that keeps the first of several equal maxima
MaxByVotes_First(votes, lo, hi) ==
    CHOOSE c \in lo..(hi - 1) :
        /\ \A sigma \in lo..(hi - 1) : votes[sigma] <= votes[c]
        /\ \A sigma \in lo..(c - 1) : votes[sigma] < votes[c]

\* votes.iter().enumerate().max_by(|(_, v1), (_, v2)| v1.cmp(v2)) over lo..hi-1:
\* the index of the last maximum
RECURSIVE MaxByVotes(_, _, _)
MaxByVotes(votes, lo, hi) ==
    IF hi = lo + 1 THEN lo
    ELSE Bind(lo + ((hi - lo) \div 2), LAMBDA mid :
            Bind(MaxByVotes(votes, lo, mid), LAMBDA l :
                Bind(MaxByVotes(votes, mid, hi), LAMBDA r :
                    IF votes[r] >= votes[l] THEN r ELSE l)))

\* KeyBytePredictionInfo::from_sigma_votes: the candidate sigma, and the f64
\* statistics (err_strong, err_normal, the score) kept as the arguments they
\* are a function of
from_sigma_votes(key_idx, votes, total_votes) ==
    [key_idx |-> key_idx,
     candidate_sigma |-> MaxByVotes(votes, 0, 256),
     votes |-> votes,
     total_votes |-> total_votes]

\* the closure of get_or_init
ComputeKeyByteInfos(p) ==
    [idx \in 0..(LEN_104 - 1) |->
        from_sigma_votes(idx, p.sigma_votes[idx], p.num_samples)]

\* an accept_sample that leaves the OnceCell as it is
KeyPredictorAcceptSample_KeepsCell(p, sample) ==
    Bind(PredictorAcceptSample([num_samples |-> p.num_samples,
                                sigma_votes |-> p.sigma_votes], sample),
         LAMBDA q : [num_samples |-> q.num_samples,
                     sigma_votes |-> q.sigma_votes,
                     key_byte_infos |-> p.key_byte_infos])

\* accept_sample, with its last statement self.key_byte_infos.take()
KeyPredictorAcceptSample(p, sample) ==
    Bind(PredictorAcceptSample([num_samples |-> p.num_samples,
                                sigma_votes |-> p.sigma_votes], sample),
         LAMBDA q : [num_samples |-> q.num_samples,
                     sigma_votes |-> q.sigma_votes,
                     key_byte_infos |-> None])

\* key_byte_infos(): self.key_byte_infos.get_or_init(|| ...); the cell after
\* the call, whose content is what the call returns
KeyPredictorKeyByteInfos(p) ==
    IF p.key_byte_infos.tag = "Some" THEN p.key_byte_infos
    ELSE Bind(ComputeKeyByteInfos(p), LAMBDA computed :
            [tag |-> "Some", infos |-> [idx \in 0..(LEN_104 - 1) |-> computed[idx]]])

PredictorWithCell ==
    [num_samples |-> num_samples, sigma_votes |-> sigma_votes,
     key_byte_infos |-> key_byte_infos]

\* KeyPredictor::new(): no votes, an empty cell
InitCache == InitPredictor

\* one accept_sample() call; the reference an earlier key_byte_infos() call
\* returned cannot be held across it
CacheAcceptSample ==
    /\ num_samples < MaxAccepted
    /\ UNCHANGED << phase, delay_timer, test_sample_buf, key_tester,
                    cracked_key, panic, provided, no_sample >>
    /\ UNCHANGED << tester_vars, buffer_vars, rc4, call_in >>
    /\ UNCHANGED thread_vars
    /\ \E sample \in PredictorSamples :
          \E after \in { KeyPredictorAcceptSample(PredictorWithCell, sample) } :
              /\ num_samples' = after.num_samples
              /\ sigma_votes' = after.sigma_votes
              /\ key_byte_infos' = after.key_byte_infos
    /\ call_out' = None

\* one key_byte_infos() call
CacheKeyByteInfos ==
    /\ UNCHANGED << phase, delay_timer, test_sample_buf, key_tester,
                    cracked_key, panic, provided, no_sample >>
    /\ UNCHANGED << tester_vars, buffer_vars, rc4, call_in >>
    /\ UNCHANGED thread_vars
    /\ UNCHANGED << num_samples, sigma_votes >>
    /\ \E cell \in { KeyPredictorKeyByteInfos(PredictorWithCell) } :
          /\ key_byte_infos' = cell
          /\ call_out' = [tag |-> "Some", infos |-> cell.infos]

NextCache == CacheAcceptSample \/ CacheKeyByteInfos

SpecCache == InitCache /\ [][NextCache]_vars

\* ========================================================================
\* Properties
\* ========================================================================
TesterBuilt == key_tester.tag = "Some"

\* C1: from a fresh tester, each of the first num_keys - 1 calls of
\* advance_to_next_key() returns true and leaves cur_key_idx at the number of
\* calls made; the call after them returns false and leaves the tester in its
\* end state, without aborting.
C1_AdvanceCountsThenReturnsFalse ==
    TesterBuilt =>
        /\ (adv_calls >= 1 /\ adv_calls <= key_tester.num_keys - 1) =>
              /\ panic = "none"
              /\ adv_ret = "true"
              /\ key_tester.cur_key_idx = adv_calls
        /\ adv_calls = key_tester.num_keys =>
              /\ panic = "none"
              /\ adv_ret = "false"
              /\ is_at_end(key_tester)

\* the last candidate of the enumeration is current and does not verify
LastCandidateFails ==
    /\ phase = "CandidateKeyTesting"
    /\ panic = "none"
    /\ TesterBuilt
    /\ key_tester.cur_key_idx = key_tester.num_keys - 1
    /\ test_current_key(key_tester, test_sample_buf).tag = "None"

\* C2: when no candidate verifies, the do_work() step that tests the last of
\* the num_keys candidates takes the engine to FinishedFailure, with no
\* cracked key and without aborting.
C2_ExhaustionEndsInFinishedFailure ==
    [][LastCandidateFails =>
          /\ phase' = "FinishedFailure"
          /\ cracked_key' = None
          /\ panic' = "none"]_vars

\* C3: no do_work() step runs into an abort: the num_keys assertion of
\* KeyTester::new, the end-state panic of current_key, the "unable to
\* advance" panic, or an absent key tester.
C3_DoWorkNeverAborts == panic = "none"

\* the product of the elements of a finite set of naturals
RECURSIVE ProductOf(_)
ProductOf(set) ==
    IF set = {} THEN 1
    ELSE LET x == CHOOSE y \in set : TRUE IN x * ProductOf(set \ {x})

StrongPositions(key_predictions) ==
    { i \in 0..(LEN_104 - 1) : IsStrong(key_predictions[i]) }

\* C4: KeyTester::new yields, for every prediction array, a tester whose
\* num_keys is the product of the Strong positions' indices and is >= 1.
C4_NumKeysIsProductAndPositive ==
    /\ panic # "assert_num_keys"
    /\ TesterBuilt =>
          /\ key_tester.num_keys = ProductOf(StrongPositions(key_tester.key_predictions))
          /\ key_tester.num_keys >= 1

PhaseChanges ==
    { << "SampleCollection", "CandidateKeyTesting" >>,
      << "CandidateKeyTesting", "FinishedSuccess" >>,
      << "CandidateKeyTesting", "FinishedFailure" >> }

\* C5: the phase only moves SampleCollection -> CandidateKeyTesting ->
\* FinishedSuccess / FinishedFailure: never backwards, never out of a
\* terminal phase.
C5_PhaseMonotonic ==
    [][phase' # phase => << phase, phase' >> \in PhaseChanges]_vars

\* the engine went through collection and tested more than one candidate
\* before it found the key
C5_Witness ==
    /\ phase = "FinishedSuccess"
    /\ key_tester.cur_key_idx >= 1

\* the key the tester's current candidate stands for, as 104 and as 40 bit key
CurrentKey104 == Wep104Key(current_key(key_tester))
CurrentKey40 == Wep40Key([k \in 0..(LEN_40 - 1) |-> current_key(key_tester)[k]])

\* C6: cracked_key is present iff the phase is FinishedSuccess, and then it
\* is the tester's current candidate (13 bytes, or its first 5 bytes if
\* maybe_wep40) and test_wep_key accepts it against the test buffer.
C6_CrackedKeyIffSuccessAndValid ==
    /\ cracked_key.tag = "Some" <=> phase = "FinishedSuccess"
    /\ cracked_key.tag = "Some" =>
          /\ TesterBuilt
          /\ \/ cracked_key.key = CurrentKey104
             \/ key_tester.maybe_wep40 /\ cracked_key.key = CurrentKey40
          /\ test_wep_key(test_sample_buf, cracked_key.key)

\* a WEP-40 key was recovered from the prefix of a candidate
C6_Witness ==
    /\ phase = "FinishedSuccess"
    /\ cracked_key.tag = "Some"
    /\ cracked_key.key.tag = "Wep40Key"

\* C7: once the UI thread has set wants_access, the worker takes the mutex
\* at most once more before the UI thread has it, and the UI thread
\* eventually has it.
C7_ObserverNotStarved ==
    /\ [](observer_pc = "want" => worker_locks <= 1)
    /\ (observer_pc = "want" ~> observer_pc = "clear")

\* the worker, already past its yield loop, took the mutex once after
\* wants_access was set and the UI thread waits for it
C7_Witness ==
    /\ observer_pc = "want"
    /\ wants_access
    /\ worker_locks = 1
    /\ mutex = "worker"

\* C8: once should_exit is set, or the engine is in a terminal phase, the
\* worker eventually terminates, and the join of the drop returns.
C8_WorkerTerminates ==
    /\ ((should_exit \/ ~is_running(Engine)) ~> WorkerTerminated)
    /\ (observer_pc = "join" ~> observer_pc \in {"joined", "joined_panic"})

\* the thread was dropped in the middle of the collection and the join returned
C8_Witness ==
    /\ observer_pc = "joined"
    /\ worker_pc = "done"
    /\ phase = "SampleCollection"
    /\ num_samples >= 1

\* C9: in the smoke run every sample handed out is counted once, the run
\* does not get stuck, and at its end all MaxSnapshots snapshots are taken and
\* num_samples = MaxSamples.
C9_SmokeRunCompletes ==
    /\ [](num_samples = provided /\ num_samples <= MaxSamples)
    /\ [](observer_pc \in {"joined", "joined_panic"} =>
             /\ observer_pc = "joined"
             /\ snapshots = MaxSnapshots
             /\ num_samples = MaxSamples)
    /\ <>(observer_pc = "joined" /\ worker_pc = "done")

\* the smoke run is over: the samples are used up, the snapshots taken and
\* the thread joined
C9_Witness ==
    /\ observer_pc = "joined"
    /\ worker_pc = "done"
    /\ snapshots = MaxSnapshots
    /\ num_samples = MaxSamples

WorkerHolds == worker_pc \in {"locked", "unlock", "exiting"}
ObserverHolds == observer_pc \in {"clear", "read"}

\* C10: the engine state changes only in a step of the worker that holds the
\* mutex; worker and UI thread never hold the mutex together; the engine
\* state does not change while the UI thread is in its critical section.
C10_EngineChangesOnlyUnderWorkerLock ==
    /\ [][Engine' # Engine => worker_pc = "locked" /\ mutex = "worker"]_vars
    /\ [](~(WorkerHolds /\ ObserverHolds))
    /\ [][ObserverHolds /\ ObserverHolds' => Engine' = Engine]_vars

\* the UI thread reads a half-collected state while the worker waits for the mutex
C10_Witness ==
    /\ observer_pc = "read"
    /\ mutex = "observer"
    /\ worker_pc = "lock"
    /\ phase = "SampleCollection"
    /\ num_samples >= 1

\* does the keystream re-derived from BufferTestKey equal the sample's
MatchesTestKey == [sample \in BufferSamples |-> SampleMatches(sample, BufferTestKey)]

\* retained samples whose re-derived keystream does not match / matches
Mismatches(samples) == Cardinality({ n \in 1..Len(samples) : ~MatchesTestKey[samples[n]] })
Matches(samples) == Cardinality({ n \in 1..Len(samples) : MatchesTestKey[samples[n]] })

\* C11: test_wep_key returns true iff the mismatching retained samples are
\* fewer than len * (1 - threshold), and iff at least ceil(len * threshold)
\* retained samples match.
C11_TestWepKeyThreshold ==
    call_out # None =>
        LET samples == test_sample_buf.samples
            fract == test_sample_buf.test_threshold_fract
        IN /\ call_out.ret <=>
                  Mismatches(samples) * fract.den < Len(samples) * (fract.den - fract.num)
           /\ call_out.ret <=>
                  Matches(samples) * fract.den >= Len(samples) * fract.num

\* the samples at positions p, 2p, 3p, ... of a sequence
EveryPth(seq, p) == [k \in 1..(Len(seq) \div p) |-> seq[k * p]]

\* C12: the samples appended so far are the p-th, 2p-th, ... offered samples
\* in offer order, and the buffer holds offered samples only.
C12_EveryPthSampleAdmitted ==
    /\ admitted = EveryPth(offered, test_sample_buf.sample_period)
    /\ \A n \in 1..Len(test_sample_buf.samples) :
          \E k \in 1..Len(offered) : test_sample_buf.samples[n] = offered[k]

\* three samples were offered to a buffer of period 2 and the second one
\* alone was appended
C12_Witness ==
    /\ test_sample_buf.sample_period = 2
    /\ offered = << SampleStray, Sample104, SampleStray >>
    /\ admitted = << Sample104 >>

\* the last n elements of a sequence
LastN(seq, n) == [k \in 1..n |-> seq[Len(seq) - n + k]]

\* C13: a buffer of capacity c holds at most c samples: the most recent
\* min(c, admitted) admitted samples in admission order; admitting a sample
\* into a full buffer evicts the oldest sample and nothing else.
C13_BufferHoldsMostRecent ==
    /\ [](/\ Len(test_sample_buf.samples) <= test_sample_buf.buffer_size
          /\ test_sample_buf.samples =
                LastN(admitted, Min(test_sample_buf.buffer_size, Len(admitted))))
    /\ [][(Len(test_sample_buf.samples) = test_sample_buf.buffer_size
             /\ admitted' # admitted) =>
              test_sample_buf'.samples =
                  Append(Tail(test_sample_buf.samples), admitted'[Len(admitted')])]_vars

\* a full buffer of capacity 2 has evicted its oldest sample
C13_Witness ==
    /\ test_sample_buf.buffer_size = 2
    /\ admitted = << Sample104, SampleStray, SampleStray >>
    /\ test_sample_buf.samples = << SampleStray, SampleStray >>

\* ------------------------------------------------------------------------
\* sum of the cells lo..hi of one row of sigma_votes
RECURSIVE RowSumRange(_, _, _)
RowSumRange(row, lo, hi) ==
    IF lo > hi THEN 0
    ELSE IF lo = hi THEN row[lo]
    ELSE Bind(lo + ((hi - lo) \div 2), LAMBDA mid :
             RowSumRange(row, lo, mid) + RowSumRange(row, mid + 1, hi))

RowSum(row) == RowSumRange(row, 0, 255)

\* C14: after any sequence of accept_sample() calls every one of the 13 rows
\* of sigma_votes sums to num_samples; each call adds one to exactly one cell
\* of each row and to num_samples, and lowers no cell.
C14_RowSumsEqualNumSamples ==
    /\ [](\A i \in 0..(LEN_104 - 1) : RowSum(sigma_votes[i]) = num_samples)
    /\ [][/\ num_samples' = num_samples + 1
          /\ \A i \in 0..(LEN_104 - 1) :
                /\ \E s0 \in Byte :
                      sigma_votes'[i] = [sigma_votes[i] EXCEPT ![s0] = @ + 1]
                /\ \A s0 \in Byte : sigma_votes'[i][s0] >= sigma_votes[i][s0]]_vars

\* several samples accepted: one cell of a row voted for more than once, and
\* a row with votes in two cells
C14_Witness ==
    /\ num_samples = MaxAccepted
    /\ \E i \in 0..(LEN_104 - 1), s0 \in Byte : sigma_votes[i][s0] >= 2
    /\ \E i \in 0..(LEN_104 - 1) :
          \E s0, s1 \in Byte : s0 # s1 /\ sigma_votes[i][s0] > 0 /\ sigma_votes[i][s1] > 0

\* ------------------------------------------------------------------------
\* the classifications the predictor reports
PredictorClassifications(infos) ==
    [i \in 0..(LEN_104 - 1) |-> infos[i].prediction]

EntersTesting == phase = "SampleCollection" /\ phase' = "CandidateKeyTesting"

\* C15: the engine moves from SampleCollection to CandidateKeyTesting only in
\* a do_work() step in which the test buffer is full and every one of the 13
\* key bytes has a score over the threshold of its class; that step creates
\* the Key Tester, which holds exactly the predictor's 13 classifications.
C15_TestingEnteredWhenReadyWithSnapshot ==
    [][EntersTesting =>
          /\ is_full(test_sample_buf')
          /\ \A i \in 0..(LEN_104 - 1) : key_byte_infos'[i].score_ok
          /\ key_tester'.tag = "Some"
          /\ key_tester'.key_predictions = PredictorClassifications(key_byte_infos')]_vars

\* ------------------------------------------------------------------------
\* C16: once the phase is CandidateKeyTesting or later, the Key Tester's
\* predictions never change, and no do_work() step calls the sample provider
\* or modifies the predictor's votes, num_samples or the test buffer.
C16_CollectionStateFrozenAfterCollection ==
    [][phase # "SampleCollection" =>
          /\ UNCHANGED << sigma_votes, num_samples, test_sample_buf >>
          /\ UNCHANGED << provided, no_sample >>
          /\ key_tester.tag = "Some" =>
                /\ key_tester'.tag = "Some"
                /\ key_tester'.key_predictions = key_tester.key_predictions]_vars

\* candidates were tested and the tester advanced after the collection ended
C16_Witness ==
    /\ phase = "FinishedSuccess"
    /\ key_tester.tag = "Some"
    /\ key_tester.cur_key_idx >= 1
    /\ num_samples >= 2
    /\ is_full(test_sample_buf)

\* ------------------------------------------------------------------------
\* the l-index vectors over positions 0..i: l in 1..k at each Strong position
\* k, usize::MAX at the others
RECURSIVE LIdxCombinationsTo(_, _)
LIdxCombinationsTo(key_predictions, i) ==
    IF i < 0 THEN { << >> }
    ELSE LET shorter == LIdxCombinationsTo(key_predictions, i - 1)
             choices == IF IsStrong(key_predictions[i]) THEN 1..i ELSE { USIZE_MAX }
         IN { Append(v, l) : v \in shorter, l \in choices }

LIdxCombinations(key_predictions) ==
    { ByteArray(v) : v \in LIdxCombinationsTo(key_predictions, LEN_104 - 1) }

IsLIdxCombination(key_predictions, l_idxs) ==
    \A i \in 0..(LEN_104 - 1) :
        IF IsStrong(key_predictions[i]) THEN l_idxs[i] \in 1..i
        ELSE l_idxs[i] = USIZE_MAX

\* C17: from a fresh KeyTester, the l-index vectors seen by current_key()
\* while advance_to_next_key() is called until the space is exhausted are
\* combinations with l_i in 1..=i at each Strong position i, no vector is
\* seen twice, and once the last of the num_keys candidates is current they
\* are exactly the num_keys combinations.
C17_EveryCombinationVisitedOnce ==
    TesterBuilt =>
        /\ \A l_idxs \in visited : IsLIdxCombination(key_tester.key_predictions, l_idxs)
        /\ (panic = "none" /\ adv_ret # "false") => Cardinality(visited) = adv_calls + 1
        /\ Cardinality(visited) <= key_tester.num_keys
        /\ (key_tester.cur_key_idx = key_tester.num_keys - 1 \/ panic # "none") =>
              /\ visited = LIdxCombinations(key_tester.key_predictions)
              /\ Cardinality(visited) = key_tester.num_keys

\* the whole space of a tester with several Strong positions was walked
C17_Witness ==
    /\ TesterBuilt
    /\ Cardinality(StrongPositions(key_tester.key_predictions)) >= 3
    /\ key_tester.num_keys >= 24
    /\ key_tester.cur_key_idx = key_tester.num_keys - 1
    /\ Cardinality(visited) = key_tester.num_keys

\* ------------------------------------------------------------------------
HighPositionsAllStrong(key_predictions) ==
    \A i \in LEN_40..(LEN_104 - 1) : IsStrong(key_predictions[i])

\* C18: maybe_wep40 is true right after construction iff every prediction at
\* positions 5..12 is Strong; after any sequence of advance_to_next_key()
\* calls it is true iff it was true at construction and no Strong position
\* i >= 5 has been advanced past its initial l-index; it never changes from
\* false back to true.
C18_MaybeWep40 ==
    /\ [](TesterBuilt =>
            /\ adv_calls = 0 =>
                  (key_tester.maybe_wep40
                      <=> HighPositionsAllStrong(key_tester.key_predictions))
            /\ key_tester.maybe_wep40
                  <=> (HighPositionsAllStrong(key_tester.key_predictions)
                          /\ ~hi_advanced))
    /\ [][(TesterBuilt /\ ~key_tester.maybe_wep40)
             => (key_tester'.tag = "Some" /\ ~key_tester'.maybe_wep40)]_vars

\* a tester of the WEP-40 shape that kept maybe_wep40 over several calls and
\* lost it in the call that first advanced position 5
C18_Witness ==
    /\ TesterBuilt
    /\ HighPositionsAllStrong(key_tester.key_predictions)
    /\ adv_calls >= 6
    /\ hi_advanced
    /\ key_tester.cur_l_idxs[LEN_40] = 2
    /\ ~key_tester.maybe_wep40

\* ------------------------------------------------------------------------
AllNormal(key_predictions) ==
    \A i \in 0..(LEN_104 - 1) : ~IsStrong(key_predictions[i])

\* key[0] = sigma_0 and key[i] = sigma_i - sigma_{i-1} mod 256
SigmaDifferences(key_predictions) ==
    [i \in 0..(LEN_104 - 1) |->
        IF i = 0 THEN key_predictions[0].sigma
        ELSE (key_predictions[i].sigma - key_predictions[i - 1].sigma + 256) % 256]

\* C19: if all 13 predictions are Normal{sigma_i} then num_keys = 1 and
\* current_key() returns the key with key[0] = sigma_0 and key[i] =
\* (sigma_i - sigma_{i-1}) mod 256; for a 13-byte key K, the running sums of
\* K fed as Normal predictions reconstruct exactly K.
C19_NormalPredictionsReconstructKey ==
    (TesterBuilt /\ AllNormal(key_tester.key_predictions)) =>
        /\ key_tester.num_keys = 1
        /\ call_out # None =>
              /\ call_out.key = SigmaDifferences(key_tester.key_predictions)
              /\ call_out.key = call_in

\* a key whose running sums wrap around 256 was reconstructed
C19_Witness ==
    /\ TesterBuilt
    /\ AllNormal(key_tester.key_predictions)
    /\ call_out # None
    /\ call_in[3] = 255
    /\ \E i \in 1..(LEN_104 - 1) :
          key_tester.key_predictions[i].sigma < key_tester.key_predictions[i - 1].sigma

\* ------------------------------------------------------------------------
\* the bytes generated so far agree with a published keystream, as far as
\* both go
AgreesWith(keystream) ==
    \A n \in 1..Min(Len(call_out), Len(keystream)) : call_out[n] = keystream[n]

\* C20: RC4Cipher::from_key followed by successive gen_keystream_byte()
\* calls reproduces the published vectors: key "Key" gives EB 9F 77 81 B7 34
\* CA 72 A7 19 and key "Secret" gives 04 D4 6B 05 3C A8 7B 59.
C20_RC4TestVectors ==
    /\ call_in = TestVectorKey.key => AgreesWith(TestVectorKey.keystream)
    /\ call_in = TestVectorSecret.key => AgreesWith(TestVectorSecret.keystream)

\* all ten bytes of the vector for "Key" were generated
C20_Witness ==
    /\ call_in = TestVectorKey.key
    /\ Len(call_out) >= Len(TestVectorKey.keystream)
    /\ rc4.i = Len(call_out)

\* ------------------------------------------------------------------------
\* C21: do_partial_keyschedule(prefix) followed by
\* do_partial_keyschedule(suffix) on a fresh cipher gives the same S, i and j
\* as one do_partial_keyschedule(prefix ++ suffix); when the bytes are the
\* tiling of a key, the permutation is the one of from_key.
C21_PartialKeyscheduleComposes ==
    (call_out # None /\ call_out.calls = 2) =>
        /\ rc4 = do_partial_keyschedule(RC4Default, call_in.bytes)
        /\ rc4.i = Len0(call_in.bytes)
        /\ call_in.tiled => rc4.s = from_key(call_in.key).s

\* the tiling of a 16-byte seed was absorbed as its 3 IV bytes and the rest
C21_Witness ==
    /\ call_out # None
    /\ call_out.calls = 2
    /\ call_in.tiled
    /\ Len0(call_in.key) = 3 + LEN_104
    /\ call_in.split = 3
    /\ rc4.i = 256
    /\ rc4.s # RC4Default.s

\* ------------------------------------------------------------------------
\* C22: a panic of do_work() on the worker thread is not lost: the drop of
\* the KeyCrackerThread joins the worker and re-raises the panic on the
\* thread that drops it; when the worker ended without a panic the drop
\* returns normally.
C22_WorkerPanicResumedAtJoin ==
    /\ [](observer_pc = "joined_panic" => (panic # "none" /\ worker_pc = "panicked"))
    /\ [](observer_pc = "joined" => (panic = "none" /\ worker_pc = "done"))
    /\ (observer_pc = "join" /\ WorkerTerminated)
           ~> (observer_pc = IF worker_pc = "panicked" THEN "joined_panic" ELSE "joined")

\* the worker panicked in advance_to_next_key() and the drop re-raised it
C22_Witness ==
    /\ panic = "unable_to_advance"
    /\ worker_pc = "panicked"
    /\ observer_pc = "joined_panic"

\* ------------------------------------------------------------------------
\* does the buffer accept the tester's current key as a WEP-104 key / its
\* first 5 bytes as a WEP-40 key
Accepts104 == test_wep_key(test_sample_buf, Wep104Key(current_key(key_tester)))
Accepts40 ==
    test_wep_key(test_sample_buf,
                 Wep40Key([k \in 0..(LEN_40 - 1) |-> current_key(key_tester)[k]]))

\* C24: test_current_key() returns current_key() as a WEP-104 key if the
\* buffer accepts it; only if not, and if maybe_wep40 holds, it returns the
\* first 5 bytes as a WEP-40 key if the buffer accepts that; otherwise it
\* returns None. It never returns a WEP-40 key while maybe_wep40 is false.
C24_TestCurrentKeyOrder ==
    call_out # None =>
        /\ Accepts104 =>
              call_out.ret = [tag |-> "Some", key |-> Wep104Key(current_key(key_tester))]
        /\ (~Accepts104 /\ key_tester.maybe_wep40 /\ Accepts40) =>
              call_out.ret =
                  [tag |-> "Some",
                   key |-> Wep40Key([k \in 0..(LEN_40 - 1) |-> current_key(key_tester)[k]])]
        /\ (~Accepts104 /\ ~(key_tester.maybe_wep40 /\ Accepts40)) => call_out.ret = None
        /\ ~key_tester.maybe_wep40 =>
              (call_out.ret = None \/ call_out.ret.key.tag = "Wep104Key")

\* the first 5 bytes would pass as a WEP-40 key, but maybe_wep40 is false and
\* the call returned None
C24_Witness ==
    /\ call_out # None
    /\ ~key_tester.maybe_wep40
    /\ Len(test_sample_buf.samples) = 2
    /\ ~Accepts104
    /\ Accepts40
    /\ call_out.ret = None

\* ------------------------------------------------------------------------
\* the sum over k in lo..hi of (key[k] + 3 + k), in the integers
RECURSIVE StrongSum(_, _, _)
StrongSum(key, lo, hi) ==
    IF lo > hi THEN 0 ELSE key[hi] + 3 + hi + StrongSum(key, lo, hi - 1)

\* C25: for every prediction array and every reachable l-index vector, the
\* key returned by current_key() has at each Strong position i >= 1
\* key[i] = -(sum over k in [l_i, i) of (key[k] + 3 + k) + 3 + i) mod 256,
\* that is, the sum over k in [l_i, i] of (key[k] + 3 + k) is 0 mod 256.
C25_StrongByteSumsToZero ==
    (TesterBuilt /\ ~is_at_end(key_tester)) =>
        \A i \in 1..(LEN_104 - 1) :
            IsStrong(key_tester.key_predictions[i]) =>
                /\ current_key(key_tester)[i] =
                       (256 - ((StrongSum(current_key(key_tester),
                                          key_tester.cur_l_idxs[i], i - 1) + 3 + i) % 256)) % 256
                /\ StrongSum(current_key(key_tester), key_tester.cur_l_idxs[i], i) % 256 = 0

\* several Strong positions, one of them with a sum over more than one byte
C25_Witness ==
    /\ TesterBuilt
    /\ ~is_at_end(key_tester)
    /\ adv_calls >= 5
    /\ Cardinality(StrongPositions(key_tester.key_predictions)) >= 3
    /\ \E i \in 3..(LEN_104 - 1) :
          /\ IsStrong(key_tester.key_predictions[i])
          /\ key_tester.cur_l_idxs[i] <= i - 2

\* ------------------------------------------------------------------------
\* C26: in a terminal phase (FinishedSuccess or FinishedFailure) do_work()
\* changes nothing: phase, cracked key, key tester, predictor (votes, sample
\* count, infos), test buffer and check counter keep their values, and the
\* sample provider is not called.
C26_TerminalDoWorkChangesNothing ==
    [][(phase = "FinishedSuccess" \/ phase = "FinishedFailure") =>
        ( /\ UNCHANGED << phase, cracked_key, key_tester, panic >>
          /\ UNCHANGED << sigma_votes, num_samples, key_byte_infos >>
          /\ UNCHANGED << test_sample_buf, delay_timer >>
          /\ UNCHANGED << provided, no_sample >> )]_vars

\* a terminal state in which do_work() can be called (the guards of
\* EngineDoWork hold), after a collection and a test of some candidates
C26_Witness ==
    /\ phase = "FinishedSuccess"
    /\ cracked_key.tag = "Some"
    /\ panic = "none"
    /\ WithinTestedKeys
    /\ num_samples >= 1
    /\ key_tester.tag = "Some"

\* C27: in SampleCollection a do_work() step in which the provider returns
\* no sample leaves the engine state unchanged: num_samples, sigma votes,
\* the test buffer with its period counter, the readiness-check counter and
\* the phase (and with them the infos, the tester and the cracked key).
C27_NoSampleStepChangesNothing ==
    [][(phase = "SampleCollection" /\ provided' = provided) =>
        ( /\ UNCHANGED << num_samples, sigma_votes, key_byte_infos >>
          /\ test_sample_buf' = test_sample_buf
          /\ test_sample_buf'.period_timer = test_sample_buf.period_timer
          /\ delay_timer' = delay_timer
          /\ phase' = phase
          /\ UNCHANGED << key_tester, cracked_key, panic >> )]_vars

\* the provider has returned "no sample" in the middle of a collection
C27_Witness ==
    /\ phase = "SampleCollection"
    /\ no_sample >= 1
    /\ num_samples >= 1
    /\ delay_timer >= 1
    /\ test_sample_buf.period_timer >= 1

\* ------------------------------------------------------------------------
\* C28: the cached per-byte infos are never stale: after any interleaving of
\* accept_sample() and key_byte_infos() calls, what key_byte_infos() returns
\* (and what the cell holds) is for each byte the info computed from the
\* current sigma_votes row and the current num_samples.
C28_CachedInfosNeverStale ==
    /\ call_out.tag = "Some" =>
          \A idx \in 0..(LEN_104 - 1) :
              call_out.infos[idx] =
                  from_sigma_votes(idx, sigma_votes[idx], num_samples)
    /\ key_byte_infos.tag = "Some" =>
          \A idx \in 0..(LEN_104 - 1) :
              /\ key_byte_infos.infos[idx].votes = sigma_votes[idx]
              /\ key_byte_infos.infos[idx].total_votes = num_samples

\* key_byte_infos() has returned after several samples were accepted
C28_Witness ==
    /\ call_out.tag = "Some"
    /\ key_byte_infos.tag = "Some"
    /\ num_samples >= 3
    /\ call_out.infos[0].total_votes = 3
    /\ call_out.infos[0].votes[call_out.infos[0].candidate_sigma] >= 2

\* ------------------------------------------------------------------------
\* the RC4 state after the three IV bytes, step by step from the identity
\* permutation: j += S[i] + iv[i], swap S[i] and S[j], for i = 0, 1, 2
RefIVState(iv) ==
    LET s0 == [k \in Byte |-> k]
        j1 == (s0[0] + iv[0]) % 256
        s1 == [k \in Byte |-> IF k = 0 THEN s0[j1] ELSE IF k = j1 THEN s0[0] ELSE s0[k]]
        j2 == (j1 + s1[1] + iv[1]) % 256
        s2 == [k \in Byte |-> IF k = 1 THEN s1[j2] ELSE IF k = j2 THEN s1[1] ELSE s1[k]]
        j3 == (j2 + s2[2] + iv[2]) % 256
        s3 == [k \in Byte |-> IF k = 2 THEN s2[j3] ELSE IF k = j3 THEN s2[2] ELSE s2[k]]
    IN [S_3 |-> s3, j_3 |-> j3]

\* sigma_i of the sample: Sinv_3 is the inverse permutation of S_3
RefSigma(sample, i) ==
    Bind(RefIVState(sample.iv), LAMBDA st :
        LET Sinv_3(v) == CHOOSE x \in Byte : st.S_3[x] = v
            sum == RowSumRange([k \in 0..i |-> st.S_3[3 + k]], 0, i)
        IN (Sinv_3((3 + i - sample.keystream[2 + i]) % 256) - (st.j_3 + sum)) % 256)

\* C29: for every sample (iv, keystream) and every key-byte index i in 0..12
\* the cell accept_sample increments in row i is
\* sigma_i = (Sinv_3[(3 + i - keystream[2+i]) mod 256]
\*            - (j_3 + S_3[3] + ... + S_3[3+i])) mod 256,
\* with (S_3, j_3) the RC4 state after exactly the 3 IV bytes and Sinv_3 the
\* inverse permutation of S_3; no other cell changes.
C29_VotedCellIsSigma ==
    [][/\ num_samples' = num_samples + 1
       /\ \A i \in 0..(LEN_104 - 1) :
             sigma_votes'[i] =
                 [sigma_votes[i] EXCEPT ![RefSigma(call_in', i)] = @ + 1]]_vars

\* samples under different IVs have been accepted, the last one under an IV
\* that moves a cell of S_3[3..15]
C29_Witness ==
    /\ num_samples >= 3
    /\ call_in \in VoteSamples
    /\ call_in.iv = ByteArray(<< 4, 255, 9 >>)
    /\ RefIVState(call_in.iv).S_3[4] # 4
    /\ \E s0, s1 \in Byte : s0 # s1 /\ sigma_votes[0][s0] > 0 /\ sigma_votes[0][s1] > 0

\* ------------------------------------------------------------------------
\* steps lo..hi-1 of the classical RC4 key schedule on st = [S, j]:
\* j := (j + S[i] + key[i mod |key|]) mod 256, then S[i] and S[j] change
\* places
RECURSIVE ClassicalKSARange(_, _, _, _)
ClassicalKSARange(st, key, lo, hi) ==
    IF hi = lo + 1
    THEN Bind((st.j + st.S[lo] + key[lo % Len0(key)]) % 256, LAMBDA j :
            [S |-> [st.S EXCEPT ![lo] = st.S[j], ![j] = st.S[lo]], j |-> j])
    ELSE Bind(lo + ((hi - lo) \div 2), LAMBDA mid :
            Bind(ClassicalKSARange(st, key, lo, mid),
                 LAMBDA left : ClassicalKSARange(left, key, mid, hi)))

\* the permutation of the classical key schedule: 256 steps from the identity
ClassicalKSA(key) ==
    ClassicalKSARange([S |-> [k \in Byte |-> k], j |-> 0], key, 0, 256).S

\* C30: for every non-empty key of at most 256 bytes (the lengths dividing
\* 256, such as the WEP seeds of 8 and 16 bytes, among them) from_key(key)
\* yields the permutation S of the classical RC4 key schedule, which uses
\* key[i mod |key|] at step i, and leaves i = 0 and j = 0.
C30_FromKeyIsClassicalKSA ==
    call_out.tag = "Some" =>
        /\ rc4.s = ClassicalKSA(call_in)
        /\ rc4.i = 0
        /\ rc4.j = 0

\* from_key has run on a key whose last tile is cut short
C30_Witness ==
    /\ call_out.tag = "Some"
    /\ Len0(call_in) = 100
    /\ call_in[1] = 1
    /\ rc4.s # [k \in Byte |-> k]
    /\ rc4.i = 0

\* ------------------------------------------------------------------------
\* both engines have stopped
CompareDone ==
    /\ call_in.phase # "CandidateKeyTesting"
    /\ (phase # "CandidateKeyTesting" \/ panic # "none")

\* C31: on the same prediction snapshot the ascending enumeration of the
\* KeyTester and the earlier descending enumeration test the same set of
\* 13-byte candidate keys, and when no candidate verifies both engines end
\* in FinishedFailure after the last candidate.
C31_SameCandidatesSameExhaustion ==
    CompareDone =>
        /\ visited = call_in.tested
        /\ call_in.phase = "FinishedFailure"
        /\ phase = "FinishedFailure"
        /\ panic = "none"

\* ------------------------------------------------------------------------
\* C32: did_crash() returns true only if the worker thread ended abnormally
\* (a panic, or a return on a poisoned lock): never when the worker exited
\* cleanly after it saw a terminal phase or a shutdown request, and never
\* while the worker is still running.
C32_DidCrashOnlyAfterAbnormalEnd ==
    (call_out # None /\ call_out.ret) =>
        \/ worker_pc = "panicked"
        \/ (worker_pc = "done" /\ poisoned)

\* ------------------------------------------------------------------------
\* the l-index vectors that differ from the initial one at Strong positions
\* below LEN_40 only
LowCombinations(key_predictions) ==
    LET choices == { f \in [0..(LEN_40 - 1) -> 1..(LEN_40 - 1)] :
                        \A i \in 0..(LEN_40 - 1) :
                            IF IsStrong(key_predictions[i]) THEN f[i] <= i ELSE f[i] = 1 }
    IN { [i \in 0..(LEN_104 - 1) |->
             IF i < LEN_40 /\ IsStrong(key_predictions[i]) THEN f[i]
             ELSE KeyTesterNew(key_predictions).cur_l_idxs[i]] : f \in choices }

\* the 5-byte candidate prefixes of a snapshot
CandidatePrefixes(key_predictions) ==
    { Key40Prefix(current_key([KeyTesterNew(key_predictions) EXCEPT !.cur_l_idxs = l_idxs])) :
          l_idxs \in LowCombinations(key_predictions) }

\* C33: if maybe_wep40 is true at construction, then once it is false the
\* engine has tested, as a WEP-40 key, the 5-byte prefix of every
\* combination of l-indices at the Strong positions below 5: every candidate
\* prefix is tested before the enumeration steps a position >= 5.
C33_PrefixesTestedBeforeHighPosition ==
    /\ (TesterBuilt /\ HighPositionsAllStrong(key_tester.key_predictions)
            /\ ~key_tester.maybe_wep40) =>
          CandidatePrefixes(key_tester.key_predictions) \subseteq visited
    /\ (TesterBuilt /\ key_tester.maybe_wep40) =>
          \A i \in LEN_40..(LEN_104 - 1) : key_tester.cur_l_idxs[i] = 1

\* the enumeration has stepped position 5 after several distinct prefixes
C33_Witness ==
    /\ TesterBuilt
    /\ phase = "CandidateKeyTesting"
    /\ ~key_tester.maybe_wep40
    /\ key_tester.cur_l_idxs[LEN_40] = 2
    /\ Cardinality(visited) >= 6
    /\ visited = CandidatePrefixes(key_tester.key_predictions)

\* ------------------------------------------------------------------------
\* the value of an l-index vector read as a mixed-radix number whose digit
\* at Strong position i is l_i - 1 with radix i, lowest position least
\* significant, summed over the Strong positions in the given set
RECURSIVE MixedRadixOver(_, _)
MixedRadixOver(t, positions) ==
    IF positions = {} THEN 0
    ELSE LET i == CHOOSE p \in positions : TRUE
         IN (t.cur_l_idxs[i] - 1)
                * ProductOf({ j \in StrongPositions(t.key_predictions) : j < i })
            + MixedRadixOver(t, positions \ {i})

MixedRadix(t) == MixedRadixOver(t, StrongPositions(t.key_predictions))

\* C34: in every reachable KeyTester state cur_key_idx is the mixed-radix
\* value of the l-index vector, lowest Strong position least significant:
\* the sum over Strong i of (l_i - 1) times the product of the Strong
\* positions below i.
C34_KeyIndexIsMixedRadixValue ==
    TesterBuilt => key_tester.cur_key_idx = MixedRadix(key_tester)

\* the same identity over the states left by calls that returned
C34_HoldsUntilFailedAdvance ==
    (TesterBuilt /\ panic = "none") => key_tester.cur_key_idx = MixedRadix(key_tester)

\* ------------------------------------------------------------------------
\* C35: the readiness predicate is evaluated only on do_work() steps that
\* bring the number of accepted samples to a positive multiple of
\* READY_CHECK_PERIOD: during collection delay_timer counts the samples
\* accepted since the last such multiple, and whenever the phase is
\* CandidateKeyTesting or later num_samples is a positive multiple of
\* READY_CHECK_PERIOD and the test buffer is full.
C35_TestingStartsAtFullPeriod ==
    /\ phase = "SampleCollection" =>
          delay_timer = num_samples % READY_CHECK_PERIOD
    /\ phase # "SampleCollection" =>
          /\ num_samples > 0
          /\ num_samples % READY_CHECK_PERIOD = 0
          /\ is_full(test_sample_buf)

\* testing began at the second readiness check, the first one having failed
C35_Witness ==
    /\ phase # "SampleCollection"
    /\ num_samples = 2 * READY_CHECK_PERIOD
    /\ is_full(test_sample_buf)
    /\ no_sample >= 1

\* ------------------------------------------------------------------------
\* the UI thread holds the dominant lock with Ok(guard) and reads the engine
ObserverReadsEngine == observer_pc = "read" /\ ~poisoned

\* the worker holds the recessive lock with Ok(guard) and is about to look
\* at the engine
WorkerReadsEngine == worker_pc = "locked"

\* C36: in every state an observer can read under the dominant lock (and in
\* every state in which the worker calls do_work()) key_tester is None in
\* SampleCollection and Some in CandidateKeyTesting, FinishedSuccess and
\* FinishedFailure, so no unwrap of the key tester fails.
C36_TesterPresentIffPastCollection ==
    /\ (ObserverReadsEngine \/ WorkerReadsEngine) =>
          (key_tester = None <=> phase = "SampleCollection")
    /\ panic # "no_key_tester"

\* the UI thread reads an engine that is testing candidates
C36_Witness ==
    /\ ObserverReadsEngine
    /\ phase = "CandidateKeyTesting"
    /\ key_tester # None
    /\ snapshots >= 1

\* ------------------------------------------------------------------------
\* C37: TestSampleBuffer::accept_sample terminates for every configuration
\* and every buffer state, a capacity of 0 included: every call in progress
\* returns.
C37_AcceptSampleReturns == (call_in # None) ~> (call_in = None)

\* ------------------------------------------------------------------------
\* every value of 0..255 occurs in s; s has 256 places, so exactly once
IsPermutation(s) ==
    /\ DOMAIN s = 0..255
    /\ { s[k] : k \in 0..255 } = 0..255

\* C38: after any sequence of do_partial_keyschedule, gen_keystream_byte and
\* gen_keystream calls on a cipher created by default() or from_key(), S is
\* a permutation of 0..255 and j is in 0..255.
C38_SIsPermutation ==
    /\ IsPermutation(rc4.s)
    /\ rc4.j \in 0..255

\* a cipher that went through all three kinds of calls
C38_Witness ==
    /\ Len(call_out) = MaxCipherCalls
    /\ { call_out[n] : n \in 1..Len(call_out) } =
           { "do_partial_keyschedule", "gen_keystream_byte", "gen_keystream" }
    /\ rc4.s # RC4Default.s
    /\ rc4.j # 0

\* ------------------------------------------------------------------------
\* c holds the largest count of the row and no later sigma holds as much
IsLastMaximum(votes, c) ==
    /\ c \in 0..255
    /\ \A sigma \in 0..255 : votes[sigma] <= votes[c]
    /\ \A sigma \in (c + 1)..255 : votes[sigma] < votes[c]

\* C39: for every vote row candidate_sigma holds the maximum vote count, and
\* among several sigmas with the maximum count it is the largest one (255
\* when there are no samples yet).
C39_CandidateIsLastMaximum ==
    (call_out # None) =>
        \A idx \in 0..(LEN_104 - 1) :
            /\ call_out.infos[idx].votes = sigma_votes[idx]
            /\ IsLastMaximum(sigma_votes[idx], call_out.infos[idx].candidate_sigma)
            /\ num_samples = 0 => call_out.infos[idx].candidate_sigma = 255

\* infos computed over a row in which two sigmas share the largest count,
\* the candidate being the larger of them, and a third sigma has fewer votes
C39_Witness ==
    /\ call_out # None
    /\ num_samples >= 3
    /\ \E idx \in 0..(LEN_104 - 1) :
          LET c == call_out.infos[idx].candidate_sigma
          IN /\ sigma_votes[idx][c] >= 2
             /\ \E sigma \in 0..(c - 1) : sigma_votes[idx][sigma] = sigma_votes[idx][c]
             /\ \E sigma \in 0..255 :
                   /\ sigma_votes[idx][sigma] >= 1
                   /\ sigma_votes[idx][sigma] < sigma_votes[idx][c]

====
